---- MODULE Spec2Model ----
(***************************************************************************)
(* Table schema of data-table-filters: the column builder (col.ts,         *)
(* presets.ts), the validator (validate.ts), and the serializer /          *)
(* deserializer (serialize.ts), as a state machine over one definition.    *)
(*                                                                         *)
(* Encoding of JavaScript values                                           *)
(*   - an object is a TLA+ function with a string domain; a property that  *)
(*     is not an own property is outside the DOMAIN;                       *)
(*   - an optional or nullable property holds <<>> (undefined / null) or   *)
(*     <<v>> (the value v); Get reads a missing property as undefined;     *)
(*   - a function value (renderer, condition) is the string "fn";          *)
(*   - a JS object used as a map (TableSchemaDefinition) is the sequence   *)
(*     of its entries in OrdinaryOwnPropertyKeys order.                    *)
(***************************************************************************)
EXTENDS Integers, Sequences, FiniteSets, TLC

VARIABLES
  builder,     \* Maybe(ColConfig): the builder a chain is being made on
  F,           \* the builder's type parameter F: its legal filter types
  calls,       \* number of chained calls and column definitions so far
  declared,    \* keys of the definition literal, in the order written
  definition,  \* TableSchemaDefinition: entries in property order
  result,      \* Maybe(outcome) of validateSchema(definition)
  json,        \* Maybe(SchemaJSON): serializeSchema(definition), or a document received
  restored,    \* Maybe(definition): deserializeSchema(json)
  result2,     \* Maybe(outcome) of validateSchema(restored)
  json2,       \* Maybe(SchemaJSON): serializeSchema(restored)
  draft,       \* Maybe(ColumnDescriptor): a descriptor being written by hand
  pc,          \* "build" | "validated" | "serialized" | "deserialized" | "revalidated" | "done"
  heap,        \* the config objects captured by createColBuilder, by address
  builders,    \* the builders made so far: address of _config, type parameter F, origin
  attempt,     \* Maybe(the last call made on a builder and what the compiler said)
  data,        \* Maybe(the argument of inferSchemaFromJSON)
  inferred,    \* Maybe(SchemaJSON): inferSchemaFromJSON(data)
  checked,     \* Maybe(outcome) of validateSchema(deserializeSchema(inferred))
  query,       \* Maybe([schema, text]): the arguments of deserialize(schema)(text)
  parsed,      \* Maybe(the tagged result of the filter-query parser)
  filters,     \* Maybe([columnFilters, filterFields]): the arguments of serializeColumFilters
  serialized,  \* Maybe(the string serializeColumFilters returns)
  fields,      \* Maybe(generateFilterFields(definition))
  filterSchema,  \* Maybe(the definition generateFilterSchema(definition) hands to createSchema)
  emitted      \* Maybe(the chains schemaToTypeScript(json) emits, one per descriptor)

\* the variables of the filter query language and of the generators
ext == <<checked, query, parsed, filters, serialized, fields, filterSchema, emitted>>

\* the variables of the builder heap and of schema inference
aux == <<heap, builders, attempt, data, inferred, ext>>

\* the variables of the build / validate / serialize / deserialize pipeline
pipeline == <<builder, F, calls, declared, definition, result, json, restored,
              result2, json2, draft, pc>>

vars == <<builder, F, calls, declared, definition, result, json, restored,
          result2, json2, draft, pc, aux>>

-----------------------------------------------------------------------------
(* Bounds of the model *)

MaxCalls == 2
MaxCols == 2
MaxNum == 1
MaxBuilders == 3
MaxValues == 2
MaxRows == 2
MaxTokens == 2
MaxFilters == 2

-----------------------------------------------------------------------------
(* JavaScript values *)

Undefined == <<>>
Null == <<>>
Some(v) == <<v>>
Fn == "fn"

\* property read: obj.name
Get(obj, name) == IF name \in DOMAIN obj THEN obj[name] ELSE Undefined

\* { ...a, ...b }
Spread(a, b) ==
  [k \in DOMAIN a \cup DOMAIN b |-> IF k \in DOMAIN b THEN b[k] ELSE a[k]]

EmptyObject == [k \in {} |-> k]

\* ToBoolean of an optional string, number, array or object
TruthyString(m) == m # Undefined /\ m[1] # ""
TruthyNumber(m) == m # Undefined /\ m[1] # 0
TruthyObject(m) == m # Undefined

\* option values are string | number | boolean
Str(s) == [str |-> s]
Num(n) == [num |-> n]
Bool(b) == [bool |-> b]

-----------------------------------------------------------------------------
(* col.ts: createColBuilder.  A builder is its _config; every method returns *)
(* the config of the new builder.                                            *)

label(config, text) == Spread(config, [label |-> text])

description(config, text) == Spread(config, [description |-> Some(text)])

\* options is Undefined when the argument is omitted, else Some(object)
display(config, type, options) ==
  LET displayConfig == IF options # Undefined
                         THEN Spread([type |-> type], options[1])
                         ELSE [type |-> type]
  IN  Spread(config, [display |-> displayConfig])

\* a bug: the new filter is spread over the existing one, { ...existing, ...options }
filterableMerging(config, type, options) ==
  LET existing == config.filter
      filterType == IF TruthyString(type) THEN type[1]
                    ELSE IF existing # Null THEN existing[1].type
                    ELSE "input"
      newFilter == Spread(
        Spread(IF existing # Null THEN existing[1]
               ELSE [defaultOpen |-> FALSE, commandDisabled |-> FALSE],
               [type |-> filterType]),
        IF options # Undefined THEN options[1] ELSE EmptyObject)
  IN  Spread(config, [filter |-> Some(newFilter)])

\* type and options are Undefined when omitted
filterable(config, type, options) ==
  LET existing == config.filter
      filterType == IF TruthyString(type) THEN type[1]
                    ELSE IF existing # Null THEN existing[1].type
                    ELSE "input"
      newFilter == Spread(
        [type |-> filterType,
         defaultOpen |-> IF existing # Null THEN existing[1].defaultOpen ELSE FALSE,
         commandDisabled |-> IF existing # Null THEN existing[1].commandDisabled ELSE FALSE],
        IF options # Undefined THEN options[1] ELSE EmptyObject)
  IN  Spread(config, [filter |-> Some(newFilter)])

notFilterable(config) == Spread(config, [filter |-> Null])

defaultOpen(config) ==
  IF config.filter = Null THEN config
  ELSE Spread(config, [filter |-> Some(Spread(config.filter[1], [defaultOpen |-> TRUE]))])

commandDisabled(config) ==
  IF config.filter = Null THEN config
  ELSE Spread(config, [filter |-> Some(Spread(config.filter[1], [commandDisabled |-> TRUE]))])

hidden(config) == Spread(config, [hidden |-> TRUE])

size(config, px) == Spread(config, [size |-> Some(px)])

sortable(config) == Spread(config, [sortable |-> TRUE])

optional(config) == Spread(config, [optional |-> TRUE])

\* sheetConfig is Undefined when the argument is omitted
sheet(config, sheetConfig) ==
  Spread(config, [sheet |-> Some(IF sheetConfig # Undefined THEN sheetConfig[1]
                                 ELSE EmptyObject)])

(* col.ts: the seven factories *)

InputFilter == [type |-> "input", defaultOpen |-> FALSE, commandDisabled |-> FALSE]
CheckboxFilter == [type |-> "checkbox", defaultOpen |-> FALSE, commandDisabled |-> FALSE]
TimerangeFilter == [type |-> "timerange", defaultOpen |-> FALSE, commandDisabled |-> FALSE]

string ==
  [kind |-> "string", optional |-> FALSE, label |-> "", display |-> [type |-> "text"],
   hidden |-> FALSE, sortable |-> FALSE, filter |-> Some(InputFilter), sheet |-> Null]

number ==
  [kind |-> "number", optional |-> FALSE, label |-> "", display |-> [type |-> "number"],
   hidden |-> FALSE, sortable |-> FALSE, filter |-> Some(InputFilter), sheet |-> Null]

boolean ==
  [kind |-> "boolean", optional |-> FALSE, label |-> "", display |-> [type |-> "boolean"],
   hidden |-> FALSE, sortable |-> FALSE,
   filter |-> Some(Spread(CheckboxFilter,
                [options |-> Some(<<[label |-> "Yes", value |-> Bool(TRUE)],
                                    [label |-> "No", value |-> Bool(FALSE)]>>)])),
   sheet |-> Null]

timestamp ==
  [kind |-> "timestamp", optional |-> FALSE, label |-> "", display |-> [type |-> "timestamp"],
   hidden |-> FALSE, sortable |-> FALSE, filter |-> Some(TimerangeFilter), sheet |-> Null]

colEnum(values) ==
  [kind |-> "enum", enumValues |-> Some(values), optional |-> FALSE, label |-> "",
   display |-> [type |-> "badge"], hidden |-> FALSE, sortable |-> FALSE,
   filter |-> Some(CheckboxFilter), sheet |-> Null]

array(itemBuilder) ==
  [kind |-> "array", arrayItem |-> Some(itemBuilder), optional |-> FALSE, label |-> "",
   display |-> [type |-> "badge"], hidden |-> FALSE, sortable |-> FALSE,
   filter |-> Some(CheckboxFilter), sheet |-> Null]

record ==
  [kind |-> "record", optional |-> FALSE, label |-> "", display |-> [type |-> "text"],
   hidden |-> FALSE, sortable |-> FALSE, filter |-> Null, sheet |-> Null]

\* types.ts: the F parameter each factory returns (ColBuilder<T, F>)
LegalFilters(kind) ==
  CASE kind = "string" -> {"input"}
    [] kind = "number" -> {"input", "slider", "checkbox"}
    [] kind = "boolean" -> {"checkbox"}
    [] kind = "timestamp" -> {"timerange"}
    [] kind = "enum" -> {"checkbox"}
    [] kind = "array" -> {"checkbox"}
    [] kind = "record" -> {}

-----------------------------------------------------------------------------
(* presets.ts *)

DEFAULT_HTTP_STATUS_CODES == <<200, 404, 500>>
DurationSliderMax == 5000

OptionOfString(v) == [label |-> v, value |-> Str(v)]
OptionOfCode(code) == [label |-> ToString(code), value |-> Num(code)]

logLevel(values) ==
  defaultOpen(
    filterable(label(colEnum(values), "Level"), Some("checkbox"),
               Some([options |-> Some([i \in 1..Len(values) |-> OptionOfString(values[i])])])))

httpMethod(values) ==
  filterable(display(label(colEnum(values), "Method"), "text", Undefined),
             Some("checkbox"),
             Some([options |-> Some([i \in 1..Len(values) |-> OptionOfString(values[i])])]))

\* codes is Undefined when omitted
httpStatus(codes) ==
  filterable(label(number, "Status"), Some("checkbox"),
             Some([options |->
                    Some(LET cs == IF codes # Undefined THEN codes[1]
                                   ELSE DEFAULT_HTTP_STATUS_CODES
                         IN  [i \in 1..Len(cs) |-> OptionOfCode(cs[i])])]))

\* unit and slider are Undefined when omitted; { unit } always has the own property unit
duration(unit, slider) ==
  filterable(display(label(number, "Duration"), "number", Some([unit |-> unit])),
             Some("slider"),
             Some(IF slider # Undefined THEN slider[1]
                  ELSE [min |-> Some(0), max |-> Some(DurationSliderMax)]))

presetTimestamp == sortable(display(label(timestamp, "Timestamp"), "timestamp", Undefined))

traceId == notFilterable(display(label(string, "Trace ID"), "code", Undefined))

pathname == filterable(label(string, "Pathname"), Some("input"), Undefined)

-----------------------------------------------------------------------------
(* A JavaScript object used as a map: own string keys are enumerated with   *)
(* the array-index keys first, in ascending numeric order, then the other   *)
(* keys in insertion order (OrdinaryOwnPropertyKeys).                       *)

Keys == {"", "b", "2", "10"}

\* the integer a canonical array-index key denotes, or -1
ArrayIndex(key) ==
  CASE key = "2" -> 2
    [] key = "10" -> 10
    [] OTHER -> -1

HasKey(obj, key) == \E i \in 1..Len(obj) : obj[i].key = key

\* position at which a new key is inserted
InsertAt(obj, key) ==
  IF ArrayIndex(key) < 0 THEN Len(obj) + 1
  ELSE LET later == {i \in 1..Len(obj) :
                       \/ ArrayIndex(obj[i].key) < 0
                       \/ ArrayIndex(obj[i].key) > ArrayIndex(key)}
       IN  IF later = {} THEN Len(obj) + 1
           ELSE CHOOSE i \in later : \A j \in later : i <= j

\* obj[key] = value
ObjSet(obj, key, value) ==
  IF HasKey(obj, key)
    THEN [i \in 1..Len(obj) |->
            IF obj[i].key = key THEN [key |-> key, value |-> value] ELSE obj[i]]
    ELSE LET p == InsertAt(obj, key)
         IN  SubSeq(obj, 1, p - 1) \o <<[key |-> key, value |-> value]>>
               \o SubSeq(obj, p, Len(obj))

ObjectKeys(obj) == [i \in 1..Len(obj) |-> obj[i].key]

-----------------------------------------------------------------------------
(* validate.ts *)

Q == "\""

\* `${key[0]!.toUpperCase()}${key.slice(1)}`; key[0] is undefined for ""
Capitalised(key) == CASE key = "b" -> "B" [] OTHER -> key

Returned == [threw |-> FALSE]
Thrown(name, message) == [threw |-> TRUE, name |-> name, message |-> message]

\* the template literals, cut at the interpolations and the quotes
MissingLabel(key) ==
  IF key = ""
    THEN Thrown("TypeError",
                <<"Cannot read properties of undefined (reading 'toUpperCase')">>)
    ELSE Thrown("Error",
                <<"[createTableSchema] Column ", Q, key, Q, " is missing a label.",
                  "\n  Fix: .label(", Q, Capitalised(key), Q, ")">>)

MissingBounds(key) ==
  Thrown("Error",
         <<"[createTableSchema] Column ", Q, key, Q, ": ",
           "slider filter is missing min/max bounds.",
           "\n  Fix: .filterable(", Q, "slider", Q, ", { min: 0, max: 100 })">>)

MinAboveMax(key, min, max) ==
  Thrown("Error",
         <<"[createTableSchema] Column ", Q, key, Q, ": ",
           "slider min (", ToString(min), ") must be less than max (", ToString(max), ")",
           ".\n  Fix: swap the values -- .filterable(", Q, "slider", Q, ", { min: ",
           ToString(max), ", max: ", ToString(min), " })">>)

\* a > b for two numbers, either whole or written hi * 10^7 + lo + tenths / 10
Above(a, b) ==
  IF Head(ToString(a)) = "["
    THEN \/ b.hi < a.hi
         \/ b.hi = a.hi /\ b.lo < a.lo
         \/ b.hi = a.hi /\ b.lo = a.lo /\ b.tenths < a.tenths
    ELSE a > b

\* validateColumn with the bounds compared by >= instead of >
validateColumnStrict(key, c) ==
  IF c.label = "" THEN MissingLabel(key)
  ELSE IF c.filter # Null /\ c.filter[1].type = "slider"
    THEN LET min == Get(c.filter[1], "min")
             max == Get(c.filter[1], "max")
         IN  IF min = Undefined \/ max = Undefined THEN MissingBounds(key)
             ELSE IF ~Above(max[1], min[1]) THEN MinAboveMax(key, min[1], max[1])
             ELSE Returned
    ELSE Returned

\* validateColumn without the check for missing bounds (undefined > undefined is false)
validateColumnUnchecked(key, c) ==
  IF c.label = "" THEN MissingLabel(key)
  ELSE IF c.filter # Null /\ c.filter[1].type = "slider"
    THEN LET min == Get(c.filter[1], "min")
             max == Get(c.filter[1], "max")
         IN  IF min # Undefined /\ max # Undefined /\ Above(min[1], max[1])
               THEN MinAboveMax(key, min[1], max[1])
               ELSE Returned
    ELSE Returned

\* the body of the loop for one entry: the outcome thrown, or Returned to go on
validateColumn(key, c) ==
  IF c.label = "" THEN MissingLabel(key)
  ELSE IF c.filter # Null /\ c.filter[1].type = "slider"
    THEN LET min == Get(c.filter[1], "min")
             max == Get(c.filter[1], "max")
         IN  IF min = Undefined \/ max = Undefined THEN MissingBounds(key)
             ELSE IF Above(min[1], max[1]) THEN MinAboveMax(key, min[1], max[1])
             ELSE Returned
    ELSE Returned

RECURSIVE validateFrom(_, _)
validateFrom(def, i) ==
  IF i > Len(def) THEN Returned
  ELSE LET outcome == validateColumn(def[i].key, def[i].value)
       IN  IF outcome.threw THEN outcome ELSE validateFrom(def, i + 1)

\* validateSchema reporting the last violating entry instead of the first
validateSchemaBackwards(def) ==
  LET bad == {i \in 1..Len(def) : validateColumn(def[i].key, def[i].value).threw}
  IN  IF bad = {} THEN Returned
      ELSE LET last == CHOOSE i \in bad : \A j \in bad : j <= i
           IN  validateColumn(def[last].key, def[last].value)

validateSchema(def) == validateFrom(def, 1)

-----------------------------------------------------------------------------
(* serialize.ts: schema -> JSON *)

CopyOption(o) == [label |-> o.label, value |-> o.value]

\* a property assigned only under a condition
Prop(cond, name, value) == IF cond THEN name :> value ELSE EmptyObject

\* serializeFilter copying the whole filter object: { ...filter }
serializeFilterSpread(filter) ==
  IF filter = Null THEN Null ELSE Some(Spread(EmptyObject, filter[1]))

\* filter is Null or Some(FilterConfig); the result is Null or Some(FilterDescriptor)
serializeFilter(filter) ==
  IF filter = Null THEN Null
  ELSE LET f == filter[1]
           descriptor == [type |-> f.type,
                          defaultOpen |-> f.defaultOpen,
                          commandDisabled |-> f.commandDisabled]
       IN  Some(Spread(Spread(Spread(descriptor,
             Prop(TruthyObject(Get(f, "options")), "options",
                  Some([i \in 1..Len(f.options[1]) |-> CopyOption(f.options[1][i])]))),
             Prop(Get(f, "min") # Undefined, "min", Get(f, "min"))),
             Prop(Get(f, "max") # Undefined, "max", Get(f, "max"))))

serializeSheet(sh) ==
  IF sh = Null THEN Null
  ELSE LET s == sh[1]
       IN  Some(Spread(Spread(
             Prop(TruthyString(Get(s, "label")), "label", Get(s, "label")),
             Prop(TruthyString(Get(s, "className")), "className", Get(s, "className"))),
             Prop(TruthyString(Get(s, "skeletonClassName")), "skeletonClassName",
                  Get(s, "skeletonClassName"))))

\* serializeDisplay testing only that unit is an own property
serializeDisplayUnitIn(d) ==
  IF d.type = "number" /\ "unit" \in DOMAIN d
    THEN [type |-> "number", unit |-> d.unit]
    ELSE [type |-> d.type]

serializeDisplay(d) ==
  IF d.type = "number" /\ "unit" \in DOMAIN d /\ TruthyString(d.unit)
    THEN [type |-> "number", unit |-> d.unit]
    ELSE [type |-> d.type]

\* the callback of Object.entries(definition).map
serializeColumn(key, c) ==
  LET descriptor == [key |-> key,
                     label |-> c.label,
                     dataType |-> c.kind,
                     optional |-> c.optional,
                     hidden |-> c.hidden,
                     sortable |-> c.sortable,
                     display |-> serializeDisplay(c.display),
                     filter |-> serializeFilter(c.filter),
                     sheet |-> serializeSheet(c.sheet)]
      item == Get(c, "arrayItem")
  IN  Spread(Spread(Spread(Spread(descriptor,
        Prop(TruthyString(Get(c, "description")), "description", Get(c, "description"))),
        Prop(TruthyObject(Get(c, "enumValues")), "enumValues", Get(c, "enumValues"))),
        Prop(TruthyObject(item), "arrayItemType",
             Some(Spread([dataType |-> item[1].kind],
                         Prop(TruthyObject(Get(item[1], "enumValues")), "enumValues",
                              Get(item[1], "enumValues")))))),
        Prop(Get(c, "size") # Undefined, "size", Get(c, "size")))

serializeSchema(def) ==
  [columns |-> [i \in 1..Len(def) |-> serializeColumn(def[i].key, def[i].value)]]

-----------------------------------------------------------------------------
(* serialize.ts: JSON -> schema *)

defaultDisplayType(kind) ==
  CASE kind \in {"enum", "array"} -> "badge"
    [] kind = "boolean" -> "boolean"
    [] kind = "timestamp" -> "timestamp"
    [] kind = "number" -> "number"
    [] OTHER -> "text"

\* deserializeFactory giving every array descriptor the kind array
deserializeFactoryAnyArray(col_) ==
  LET itemType == Get(col_, "arrayItemType")
  IN  IF col_.dataType = "enum" /\ TruthyObject(Get(col_, "enumValues"))
        THEN colEnum(col_.enumValues[1])
      ELSE IF /\ col_.dataType = "array"
              /\ itemType # Undefined
              /\ itemType[1].dataType = "enum"
              /\ TruthyObject(Get(itemType[1], "enumValues"))
        THEN array(colEnum(itemType[1].enumValues[1]))
      ELSE IF col_.dataType = "array" THEN Spread(string, [kind |-> "array"])
      ELSE IF col_.dataType = "boolean" THEN boolean
      ELSE IF col_.dataType = "timestamp" THEN timestamp
      ELSE IF col_.dataType = "number" THEN number
      ELSE IF col_.dataType = "record" THEN record
      ELSE string

\* deserializeFactory trusting an unrecognized dataType as the column's kind
deserializeFactoryOpen(col_) ==
  LET itemType == Get(col_, "arrayItemType")
  IN  IF col_.dataType = "enum" /\ TruthyObject(Get(col_, "enumValues"))
        THEN colEnum(col_.enumValues[1])
      ELSE IF /\ col_.dataType = "array"
              /\ itemType # Undefined
              /\ itemType[1].dataType = "enum"
              /\ TruthyObject(Get(itemType[1], "enumValues"))
        THEN array(colEnum(itemType[1].enumValues[1]))
      ELSE IF col_.dataType = "boolean" THEN boolean
      ELSE IF col_.dataType = "timestamp" THEN timestamp
      ELSE IF col_.dataType = "number" THEN number
      ELSE IF col_.dataType = "record" THEN record
      ELSE Spread(string, [kind |-> col_.dataType])

\* 1. the col.* factory picked for a descriptor
deserializeFactory(col_) ==
  LET itemType == Get(col_, "arrayItemType")
  IN  IF col_.dataType = "enum" /\ TruthyObject(Get(col_, "enumValues"))
        THEN colEnum(col_.enumValues[1])
      ELSE IF /\ col_.dataType = "array"
              /\ itemType # Undefined
              /\ itemType[1].dataType = "enum"
              /\ TruthyObject(Get(itemType[1], "enumValues"))
        THEN array(colEnum(itemType[1].enumValues[1]))
      ELSE IF col_.dataType = "boolean" THEN boolean
      ELSE IF col_.dataType = "timestamp" THEN timestamp
      ELSE IF col_.dataType = "number" THEN number
      ELSE IF col_.dataType = "record" THEN record
      ELSE string

\* 3. display
deserializeDisplay(b, col_) ==
  LET displayType == IF col_.display.type = "custom"
                       THEN defaultDisplayType(col_.dataType)
                       ELSE col_.display.type
      unit == Get(col_.display, "unit")
  IN  IF displayType = "number" /\ TruthyString(unit)
        THEN display(b, "number", Some([unit |-> unit]))
      ELSE IF displayType \in {"text", "code", "boolean", "badge", "timestamp"}
        THEN display(b, displayType, Undefined)
      ELSE b

\* 4. filter
deserializeFilter(b, col_) ==
  IF col_.filter = Null THEN notFilterable(b)
  ELSE LET f == col_.filter[1]
           b1 == IF /\ f.type = "slider"
                    /\ Get(f, "min") # Undefined
                    /\ Get(f, "max") # Undefined
                   THEN filterable(b, Some("slider"),
                                   Some([min |-> f.min, max |-> f.max]))
                 ELSE IF f.type = "checkbox"
                   THEN filterable(b, Some("checkbox"),
                          Some(Prop(TruthyObject(Get(f, "options")), "options",
                                    Get(f, "options"))))
                 ELSE IF f.type = "timerange"
                   THEN filterable(b, Some("timerange"), Undefined)
                 ELSE filterable(b, Some("input"), Undefined)
           b2 == IF f.defaultOpen THEN defaultOpen(b1) ELSE b1
       IN  IF f.commandDisabled THEN commandDisabled(b2) ELSE b2

\* 6. sheet
deserializeSheet(b, col_) ==
  IF col_.sheet = Null THEN b
  ELSE LET s == col_.sheet[1]
       IN  sheet(b, Some(Spread(Spread(
             Prop(TruthyString(Get(s, "label")), "label", Get(s, "label")),
             Prop(TruthyString(Get(s, "className")), "className", Get(s, "className"))),
             Prop(TruthyString(Get(s, "skeletonClassName")), "skeletonClassName",
                  Get(s, "skeletonClassName")))))

\* the body of the loop for one descriptor: the builder stored under col_.key
deserializeColumn(col_) ==
  LET b1 == label(deserializeFactory(col_), col_.label)
      b2 == IF TruthyString(Get(col_, "description"))
              THEN description(b1, col_.description[1]) ELSE b1
      b3 == deserializeDisplay(b2, col_)
      b4 == deserializeFilter(b3, col_)
      b5 == IF col_.hidden THEN hidden(b4) ELSE b4
      b6 == IF col_.sortable THEN sortable(b5) ELSE b5
      b7 == IF col_.optional THEN optional(b6) ELSE b6
      b8 == IF Get(col_, "size") # Undefined THEN size(b7, col_.size[1]) ELSE b7
  IN  deserializeSheet(b8, col_)

RECURSIVE deserializeFrom(_, _, _)
deserializeFrom(columns, i, def) ==
  IF i > Len(columns) THEN def
  ELSE deserializeFrom(columns, i + 1,
         ObjSet(def, columns[i].key, deserializeColumn(columns[i])))

deserializeSchema(doc) == deserializeFrom(doc.columns, 1, <<>>)

-----------------------------------------------------------------------------
(* The arguments the calls are made with *)

LEVELS == <<"error", "warn">>
Nums == 0..MaxNum

Labels == {"", "Host"}
Descriptions == {"", "Round-trip time"}
Sizes == {0, 100}
Units == {Undefined, Some("ms")}
ItemBuilders == {colEnum(LEVELS), string}
StatusCodes == {Undefined, Some(<<200>>)}

\* display(type), display("number", options?), display("custom", { cell })
DisplayArgs ==
  {<<t, Undefined>> : t \in {"text", "code", "boolean", "badge", "timestamp", "number"}}
    \cup {<<"number", Some([unit |-> u])>> : u \in Units}
    \cup {<<"custom", Some([cell |-> Some(Fn)])>>}

SomeOptions == <<[label |-> "error", value |-> Str("error")],
                 [label |-> "200", value |-> Num(200)]>>

\* the second argument of filterable("checkbox", ...)
CheckboxArgs ==
  {Undefined,
   Some([options |-> Some(SomeOptions)]),
   Some([options |-> Some(<<>>)]),
   Some([options |-> Undefined]),
   Some([component |-> Some(Fn)])}

\* the second argument of filterable("input" | "timerange", ...)
PlainArgs(type) ==
  IF type = "timerange" THEN {Undefined, Some([presets |-> Some(<<"1h">>)])}
  ELSE {Undefined}

SliderArgs == {Some([min |-> Some(lo), max |-> Some(hi)]) : lo \in Nums, hi \in Nums}

SheetArgs ==
  {Undefined,
   Some([label |-> Some("Detail")]),
   Some([label |-> Some(""), className |-> Some("w-full")]),
   Some([skeletonClassName |-> Some("w-24")]),
   Some([component |-> Some(Fn), condition |-> Some(Fn)])}

-----------------------------------------------------------------------------
(* The state machine: a caller builds one definition literal from a chain   *)
(* of builders, then validates, serializes, deserializes, validates and     *)
(* serializes again.                                                         *)

\* nothing parsed, serialized, generated or emitted yet
ExtUnset ==
  /\ checked = Undefined
  /\ query = Undefined
  /\ parsed = Undefined
  /\ filters = Undefined
  /\ serialized = Undefined
  /\ fields = Undefined
  /\ filterSchema = Undefined
  /\ emitted = Undefined

Init ==
  /\ builder = Undefined
  /\ F = {}
  /\ calls = 0
  /\ declared = <<>>
  /\ definition = <<>>
  /\ result = Undefined
  /\ json = Undefined
  /\ restored = Undefined
  /\ result2 = Undefined
  /\ json2 = Undefined
  /\ draft = Undefined
  /\ pc = "build"
  /\ heap = <<>>
  /\ builders = <<>>
  /\ attempt = Undefined
  /\ data = Undefined
  /\ inferred = Undefined
  /\ ExtUnset

rest == <<declared, definition, result, json, restored, result2, json2, draft, pc>>

\* a factory call starts the chain
Start(config, legal) ==
  /\ pc = "build"
  /\ builder = Undefined
  /\ draft = Undefined
  /\ json = Undefined
  /\ builder' = Some(config)
  /\ F' = legal
  /\ UNCHANGED <<calls, rest>>
  /\ UNCHANGED aux

ColString == Start(string, LegalFilters("string"))
ColNumber == Start(number, LegalFilters("number"))
ColBoolean == Start(boolean, LegalFilters("boolean"))
ColTimestamp == Start(timestamp, LegalFilters("timestamp"))
ColEnum == Start(colEnum(LEVELS), LegalFilters("enum"))
ColArray == \E item \in ItemBuilders : Start(array(item), LegalFilters("array"))
ColRecord == Start(record, LegalFilters("record"))

PresetLogLevel == Start(logLevel(LEVELS), {"checkbox"})
PresetHttpMethod == Start(httpMethod(LEVELS), {"checkbox"})
PresetHttpStatus == \E codes \in StatusCodes : Start(httpStatus(codes), LegalFilters("number"))
PresetDuration ==
  \E unit \in Units, slider \in {Undefined} \cup SliderArgs :
    Start(duration(unit, IF slider = Undefined THEN Undefined
                         ELSE Some([min |-> slider[1].min, max |-> slider[1].max])),
          LegalFilters("number"))
PresetTimestamp == Start(presetTimestamp, {"timerange"})
PresetTraceId == Start(traceId, {})
PresetPathname == Start(pathname, {"input"})

\* a chained call returns a new builder
CanCall == pc = "build" /\ builder # Undefined /\ calls < MaxCalls

Chain(config, legal) ==
  /\ CanCall
  /\ builder' = Some(config)
  /\ F' = legal
  /\ calls' = calls + 1
  /\ UNCHANGED rest
  /\ UNCHANGED aux

Label == \E text \in Labels : Chain(label(builder[1], text), F)
Description == \E text \in Descriptions : Chain(description(builder[1], text), F)
Display == \E a \in DisplayArgs : Chain(display(builder[1], a[1], a[2]), F)
Filterable == F # {} /\ Chain(filterable(builder[1], Undefined, Undefined), F)
FilterablePlain ==
  \E type \in F \cap {"input", "timerange"} : \E options \in PlainArgs(type) :
    Chain(filterable(builder[1], Some(type), options), F)
FilterableCheckbox ==
  /\ "checkbox" \in F
  /\ \E options \in CheckboxArgs : Chain(filterable(builder[1], Some("checkbox"), options), F)
FilterableSlider ==
  /\ "slider" \in F
  /\ \E options \in SliderArgs : Chain(filterable(builder[1], Some("slider"), options), F)
NotFilterable == Chain(notFilterable(builder[1]), {})
DefaultOpen == Chain(defaultOpen(builder[1]), F)
CommandDisabled == Chain(commandDisabled(builder[1]), F)
Hidden == Chain(hidden(builder[1]), F)
Size == \E px \in Sizes : Chain(size(builder[1], px), F)
Sortable == Chain(sortable(builder[1]), F)
Optional == Chain(optional(builder[1]), F)
Sheet == \E sheetConfig \in SheetArgs : Chain(sheet(builder[1], sheetConfig), F)

\* one property of the definition literal: { ..., [key]: builder }
Define ==
  /\ CanCall
  /\ Len(declared) < MaxCols
  /\ \E key \in Keys \ {declared[i] : i \in 1..Len(declared)} :
       /\ declared' = Append(declared, key)
       /\ definition' = ObjSet(definition, key, builder[1])
  /\ calls' = calls + 1
  /\ UNCHANGED <<builder, F, result, json, restored, result2, json2, draft, pc>>
  /\ UNCHANGED aux

ValidateSchema ==
  /\ pc = "build"
  /\ definition # <<>>
  /\ result' = Some(validateSchema(definition))
  /\ pc' = "validated"
  /\ UNCHANGED <<builder, F, calls, declared, definition, json, restored, result2, json2, draft>>
  /\ UNCHANGED aux

SerializeSchema ==
  /\ pc = "validated"
  /\ json' = Some(serializeSchema(definition))
  /\ pc' = "json"
  /\ UNCHANGED <<builder, F, calls, declared, definition, result, restored, result2, json2, draft>>
  /\ UNCHANGED aux

DeserializeSchema ==
  /\ pc \in {"json", "build"}
  /\ json # Undefined
  /\ restored' = Some(deserializeSchema(json[1]))
  /\ pc' = "deserialized"
  /\ UNCHANGED <<builder, F, calls, declared, definition, result, json, result2, json2, draft>>
  /\ UNCHANGED aux

ValidateRestored ==
  /\ pc = "deserialized"
  /\ result2' = Some(validateSchema(restored[1]))
  /\ pc' = "revalidated"
  /\ UNCHANGED <<builder, F, calls, declared, definition, result, json, restored, json2, draft>>
  /\ UNCHANGED aux

SerializeRestored ==
  /\ pc = "revalidated"
  /\ json2' = Some(serializeSchema(restored[1]))
  /\ pc' = "done"
  /\ UNCHANGED <<builder, F, calls, declared, definition, result, json, restored, result2, draft>>
  /\ UNCHANGED aux

Next ==
  \/ ColString \/ ColNumber \/ ColBoolean \/ ColTimestamp \/ ColEnum \/ ColArray \/ ColRecord
  \/ PresetLogLevel \/ PresetHttpMethod \/ PresetHttpStatus \/ PresetDuration
  \/ PresetTimestamp \/ PresetTraceId \/ PresetPathname
  \/ Label \/ Description \/ Display
  \/ Filterable \/ FilterablePlain \/ FilterableCheckbox \/ FilterableSlider
  \/ NotFilterable \/ DefaultOpen \/ CommandDisabled
  \/ Hidden \/ Size \/ Sortable \/ Optional \/ Sheet
  \/ Define
  \/ ValidateSchema \/ SerializeSchema \/ DeserializeSchema
  \/ ValidateRestored \/ SerializeRestored

Spec == Init /\ [][Next]_vars

-----------------------------------------------------------------------------
(* A SchemaJSON document written outside the builder (types.ts:              *)
(* ColumnDescriptor, SchemaJSON) and handed to deserializeSchema.           *)

DataTypes == {"string", "number", "boolean", "timestamp", "enum", "array", "record", "date"}
DisplayTypes == {"text", "code", "boolean", "badge", "timestamp", "number", "custom"}

DisplayDescriptors ==
  {[type |-> t] : t \in DisplayTypes}
    \cup {[type |-> t, unit |-> Some("ms")] : t \in DisplayTypes}

FilterFlags == [defaultOpen |-> FALSE, commandDisabled |-> FALSE]

FilterDescriptors ==
  {Spread(FilterFlags, [type |-> t]) : t \in {"input", "checkbox", "slider", "timerange"}}
    \cup {Spread(FilterFlags, [type |-> "checkbox", options |-> Some(SomeOptions)])}
    \cup {Spread(FilterFlags, [type |-> "slider", min |-> Some(lo)]) : lo \in Nums}
    \cup {Spread(FilterFlags, [type |-> "slider", max |-> Some(hi)]) : hi \in Nums}
    \cup {Spread(FilterFlags, [type |-> "slider", min |-> Some(lo), max |-> Some(hi)]) :
            lo \in Nums, hi \in Nums}

ArrayItemTypes ==
  {[dataType |-> "enum", enumValues |-> Some(LEVELS)],
   [dataType |-> "enum"],
   [dataType |-> "string"]}

SheetDescriptors ==
  {EmptyObject,
   [label |-> Some("Detail")],
   [className |-> Some("w-full"), skeletonClassName |-> Some("w-24")]}

\* the required properties of a ColumnDescriptor; the key is given on PushColumn
WriteDescriptor ==
  /\ pc = "build"
  /\ builder = Undefined
  /\ draft = Undefined
  /\ \E dataType \in DataTypes, text \in Labels :
       draft' = Some([key |-> "", label |-> text, dataType |-> dataType,
                      optional |-> FALSE, hidden |-> FALSE, sortable |-> FALSE,
                      display |-> [type |-> "text"], filter |-> Null, sheet |-> Null])
  /\ UNCHANGED <<builder, F, calls, declared, definition, result, json, restored,
                 result2, json2, pc>>
  /\ UNCHANGED aux

CanWrite == pc = "build" /\ draft # Undefined /\ calls < MaxCalls

Write(descriptor) ==
  /\ CanWrite
  /\ draft' = Some(descriptor)
  /\ calls' = calls + 1
  /\ UNCHANGED <<builder, F, declared, definition, result, json, restored,
                 result2, json2, pc>>
  /\ UNCHANGED aux

WriteDescription ==
  \E text \in Descriptions : Write(Spread(draft[1], [description |-> Some(text)]))
WriteEnumValues == Write(Spread(draft[1], [enumValues |-> Some(LEVELS)]))
WriteArrayItemType ==
  \E t \in ArrayItemTypes : Write(Spread(draft[1], [arrayItemType |-> Some(t)]))
WriteFlag ==
  \E name \in {"optional", "hidden", "sortable"} : Write(Spread(draft[1], name :> TRUE))
WriteSize == \E px \in Sizes : Write(Spread(draft[1], [size |-> Some(px)]))
WriteDisplay == \E d \in DisplayDescriptors : Write(Spread(draft[1], [display |-> d]))
WriteFilter == \E f \in FilterDescriptors : Write(Spread(draft[1], [filter |-> Some(f)]))
WriteFilterFlag ==
  /\ draft # Undefined
  /\ draft[1].filter # Null
  /\ \E name \in {"defaultOpen", "commandDisabled"} :
       Write(Spread(draft[1], [filter |-> Some(Spread(draft[1].filter[1], name :> TRUE))]))
WriteSheet == \E sh \in SheetDescriptors : Write(Spread(draft[1], [sheet |-> Some(sh)]))

\* json.columns.push({ ...draft, key })
PushColumn ==
  /\ CanWrite
  /\ LET columns == IF json = Undefined THEN <<>> ELSE json[1].columns
     IN  /\ Len(columns) < MaxCols
         /\ \E key \in Keys \ {columns[i].key : i \in 1..Len(columns)} :
              json' = Some([columns |-> Append(columns, Spread(draft[1], [key |-> key]))])
  /\ calls' = calls + 1
  /\ UNCHANGED <<builder, F, declared, definition, result, restored, result2, json2,
                 draft, pc>>
  /\ UNCHANGED aux

NextJSON ==
  \/ WriteDescriptor \/ WriteDescription \/ WriteEnumValues \/ WriteArrayItemType
  \/ WriteFlag \/ WriteSize \/ WriteDisplay \/ WriteFilter \/ WriteFilterFlag \/ WriteSheet
  \/ PushColumn
  \/ DeserializeSchema \/ ValidateRestored \/ SerializeRestored

SpecJSON == Init /\ [][NextJSON]_vars

-----------------------------------------------------------------------------
(* Vocabulary of the properties *)

Columns(def) == 1..Len(def)

\* the text between two double quotes of a message
Quoted(message) ==
  {message[i + 1] : i \in {j \in 1..(Len(message) - 2) : message[j] = Q /\ message[j + 2] = Q}}

\* message contains the consecutive pieces of phrase
ContainsPhrase(message, phrase) ==
  \E i \in 0..(Len(message) - Len(phrase)) :
    \A j \in 1..Len(phrase) : message[i + j] = phrase[j]

EmptyLabel(c) == c.label = ""
IsSlider(c) == c.filter # Null /\ c.filter[1].type = "slider"
HasBounds(c) == "min" \in DOMAIN c.filter[1] /\ "max" \in DOMAIN c.filter[1]
                  /\ c.filter[1].min # Undefined /\ c.filter[1].max # Undefined
Inverted(c) == IsSlider(c) /\ HasBounds(c) /\ c.filter[1].min[1] > c.filter[1].max[1]
EqualBounds(c) == IsSlider(c) /\ HasBounds(c) /\ c.filter[1].min[1] = c.filter[1].max[1]
Violates(c) == EmptyLabel(c) \/ (IsSlider(c) /\ ~HasBounds(c)) \/ Inverted(c)

UsesCustomRenderer(c) ==
  \/ c.display.type = "custom"
  \/ c.filter # Null /\ "component" \in DOMAIN c.filter[1]
  \/ c.sheet # Null /\ DOMAIN c.sheet[1] \cap {"component", "condition"} # {}

MinAboveMaxPhrase(c) ==
  <<"slider min (", ToString(c.filter[1].min[1]), ") must be less than max (",
    ToString(c.filter[1].max[1]), ")">>

-----------------------------------------------------------------------------
(* C1: for every definition that uses no custom display renderer, no filter *)
(* component and no sheet component or condition, serializing the           *)
(* deserialized serialization gives the serialization again.                *)
C1_RoundTrip ==
  (pc = "done" /\ \A i \in Columns(definition) : ~UsesCustomRenderer(definition[i].value))
    => json2 = json

(* C2: whenever some column has an empty label, validation fails and the    *)
(* error message contains that column's key in double quotes.               *)
C2_EmptyLabelNamed ==
  result # Undefined =>
    \A i \in Columns(definition) :
      EmptyLabel(definition[i].value) =>
        /\ result[1].threw
        /\ definition[i].key \in Quoted(result[1].message)

C4_Original ==
  result # Undefined =>
    \A i \in Columns(definition) :
      LET c == definition[i].value
      IN  /\ Inverted(c) =>
               /\ result[1].threw
               /\ ContainsPhrase(result[1].message, MinAboveMaxPhrase(c))
          /\ (EqualBounds(c) /\ ~EmptyLabel(c)) => ~result[1].threw

(* C4, amended: a slider filter with min > max always makes validation      *)
(* fail; the message contains "slider min (X) must be less than max (Y)"    *)
(* and quotes the column's key when that column is labelled and no earlier  *)
(* column violates; a labelled slider column with min = max lets            *)
(* validation succeed when no other column violates.                        *)
C4_SliderOrdering ==
  result # Undefined =>
    \A i \in Columns(definition) :
      LET c == definition[i].value
      IN  /\ Inverted(c) => result[1].threw
          /\ ( /\ Inverted(c)
               /\ ~EmptyLabel(c)
               /\ \A j \in 1..(i - 1) : ~Violates(definition[j].value) )
               => /\ ContainsPhrase(result[1].message, MinAboveMaxPhrase(c))
                  /\ definition[i].key \in Quoted(result[1].message)
          /\ ( /\ EqualBounds(c)
               /\ ~EmptyLabel(c)
               /\ \A j \in Columns(definition) \ {i} : ~Violates(definition[j].value) )
               => ~result[1].threw

\* a labelled column with min > max was validated and named in the failure
C4_Witness ==
  /\ result # Undefined
  /\ Inverted(definition[1].value)
  /\ ~EmptyLabel(definition[1].value)
  /\ result[1].threw
  /\ ContainsPhrase(result[1].message, MinAboveMaxPhrase(definition[1].value))

(* C5: validateSchema returns normally if and only if every column has a    *)
(* non-empty label and every slider column has both bounds with min <= max; *)
(* kind, display, other filters, options, sheet and size play no part.      *)
C5_AcceptsIff ==
  result # Undefined =>
    ( ~result[1].threw <=>
        \A i \in Columns(definition) :
          LET c == definition[i].value
          IN  /\ c.label # ""
              /\ IsSlider(c) =>
                   /\ HasBounds(c)
                   /\ c.filter[1].min[1] <= c.filter[1].max[1] )

\* a definition with a slider column that lost its bounds was rejected
C5_Witness ==
  /\ result # Undefined
  /\ result[1].threw
  /\ \E i \in Columns(definition) :
       LET c == definition[i].value
       IN  ~EmptyLabel(c) /\ IsSlider(c) /\ ~HasBounds(c)

(* C6: a JSON column with an empty label, or with a slider filter whose     *)
(* min or max is absent or whose min exceeds max, makes validation of the   *)
(* deserialized definition fail; it never becomes a valid column.           *)
C6_MalformedJSONRejected ==
  (json # Undefined /\ result2 # Undefined) =>
    \A i \in Columns(json[1].columns) :
      LET d == json[1].columns[i]
      IN  ( \/ d.label = ""
            \/ /\ d.filter # Null
               /\ d.filter[1].type = "slider"
               /\ \/ Get(d.filter[1], "min") = Undefined
                  \/ Get(d.filter[1], "max") = Undefined
                  \/ d.filter[1].min[1] > d.filter[1].max[1] )
            => result2[1].threw

\* the properties a document may hold: none of cell, component, presets, condition
FunctionFree(doc) ==
  \A i \in Columns(doc.columns) :
    LET d == doc.columns[i]
    IN  /\ DOMAIN d \subseteq {"key", "label", "description", "dataType", "enumValues",
                               "arrayItemType", "optional", "hidden", "sortable", "size",
                               "display", "filter", "sheet"}
        /\ DOMAIN d.display \subseteq {"type", "unit"}
        /\ d.filter # Null =>
             /\ DOMAIN d.filter[1] \subseteq
                  {"type", "defaultOpen", "commandDisabled", "options", "min", "max"}
             /\ Get(d.filter[1], "options") # Undefined =>
                  \A k \in 1..Len(d.filter[1].options[1]) :
                    DOMAIN d.filter[1].options[1][k] = {"label", "value"}
        /\ d.sheet # Null =>
             DOMAIN d.sheet[1] \subseteq {"label", "className", "skeletonClassName"}

(* C7: no descriptor emitted by serializeSchema carries a function or a     *)
(* preset: display has only type and unit, filter only type, defaultOpen,   *)
(* commandDisabled, options, min and max, sheet only label, className and   *)
(* skeletonClassName.                                                       *)
C7_NoFunctions ==
  /\ json # Undefined => FunctionFree(json[1])
  /\ json2 # Undefined => FunctionFree(json2[1])

\* a column with a renderer, a filter component or presets, or a sheet
\* component has been serialized
C7_Witness ==
  /\ pc = "json"
  /\ \E i \in Columns(definition) :
       LET c == definition[i].value
       IN  \/ "cell" \in DOMAIN c.display
           \/ c.filter # Null /\ DOMAIN c.filter[1] \cap {"component", "presets"} # {}
           \/ c.sheet # Null /\ DOMAIN c.sheet[1] \cap {"component", "condition"} # {}

\* the own properties of obj among names hold a defined value
Defined(obj, names) == \A n \in DOMAIN obj \cap names : obj[n] # Undefined

NoPlaceholders(doc) ==
  \A i \in Columns(doc.columns) :
    LET d == doc.columns[i]
    IN  /\ Defined(d, {"description", "enumValues", "arrayItemType", "size"})
        /\ "arrayItemType" \in DOMAIN d => Defined(d.arrayItemType[1], {"enumValues"})
        /\ Defined(d.display, {"unit"})
        /\ "unit" \in DOMAIN d.display => d.display.type = "number" /\ d.display.unit[1] # ""
        /\ d.filter # Null => Defined(d.filter[1], {"options", "min", "max"})
        /\ d.sheet # Null => Defined(d.sheet[1], {"label", "className", "skeletonClassName"})

(* C8: in every descriptor emitted by serializeSchema an optional property  *)
(* is absent or holds a defined value, never undefined; display has a unit  *)
(* only when its type is number and the column's unit is a non-empty        *)
(* string, also after display("number", { unit: undefined }).               *)
C8_NoUndefinedPlaceholder ==
  /\ json # Undefined => NoPlaceholders(json[1])
  /\ json2 # Undefined => NoPlaceholders(json2[1])
  /\ (json # Undefined /\ definition # <<>>) =>
       \A i \in Columns(definition) :
         "unit" \in DOMAIN json[1].columns[i].display =>
           json[1].columns[i].display.unit = Get(definition[i].value.display, "unit")

\* a column whose display or filter holds an own property set to undefined
\* has been serialized
C8_Witness ==
  /\ pc = "json"
  /\ \E i \in Columns(definition) :
       LET c == definition[i].value
       IN  /\ c.display.type = "number"
           /\ "unit" \in DOMAIN c.display
           /\ c.display.unit = Undefined
           /\ json[1].columns[i].display = [type |-> "number"]

BuiltInDisplayTypes == {"text", "code", "boolean", "badge", "timestamp", "number"}

KindDefaultDisplay(kind) ==
  CASE kind \in {"enum", "array"} -> "badge"
    [] kind \in {"boolean", "timestamp", "number"} -> kind
    [] kind \in {"string", "record"} -> "text"

RestoredColumn(key) ==
  restored[1][CHOOSE i \in Columns(restored[1]) : restored[1][i].key = key].value

(* C9: a descriptor whose display type is "custom" deserializes to the      *)
(* default display of its kind (enum, array: badge; boolean: boolean;       *)
(* timestamp: timestamp; number: number; string, record: text), and every   *)
(* other built-in display type is replayed unchanged.                       *)
C9_DisplayReplayed ==
  (json # Undefined /\ restored # Undefined) =>
    \A i \in Columns(json[1].columns) :
      LET d == json[1].columns[i]
          c == RestoredColumn(d.key)
      IN  d.dataType \in DataTypes \ {"date"} =>
            /\ d.display.type = "custom" => c.display.type = KindDefaultDisplay(d.dataType)
            /\ d.display.type \in BuiltInDisplayTypes => c.display.type = d.display.type

(* C10: serializeSchema emits one descriptor per declared column in the     *)
(* order the columns were declared, and serializing a deserialized          *)
(* document lists the keys in the order of the document's columns.          *)
C10_OrderPreserved ==
  /\ (json # Undefined /\ definition # <<>>) => ObjectKeys(json[1].columns) = declared
  /\ (json # Undefined /\ json2 # Undefined) =>
       ObjectKeys(json2[1].columns) = ObjectKeys(json[1].columns)

-----------------------------------------------------------------------------
\* types.ts: ColKind
ColKind == {"string", "number", "boolean", "timestamp", "enum", "array", "record"}

(* C11: a descriptor whose dataType is not one of the seven kinds           *)
(* deserializes to a column of kind string, and no deserialized column has  *)
(* a kind outside the seven.                                                *)
C11_FailsClosed ==
  (json # Undefined /\ restored # Undefined) =>
    /\ \A i \in Columns(json[1].columns) :
         json[1].columns[i].dataType \notin ColKind =>
           RestoredColumn(json[1].columns[i].key).kind = "string"
    /\ \A i \in Columns(restored[1]) : restored[1][i].value.kind \in ColKind

\* a document with a column of an unrecognized dataType has been deserialized
C11_Witness ==
  /\ json # Undefined
  /\ restored # Undefined
  /\ \E i \in Columns(json[1].columns) :
       /\ json[1].columns[i].dataType = "date"
       /\ RestoredColumn(json[1].columns[i].key).kind = "string"

-----------------------------------------------------------------------------
(* Builders as objects (col.ts: createColBuilder).  Every builder closes    *)
(* over one config object, which _config returns; heap[a] is the object at  *)
(* address a.  A caller keeps every builder it was given and may call any   *)
(* mutator on any of them, with the TypeScript compiler checking each call  *)
(* against the builder's type parameter F (types.ts: ColBuilder).           *)

\* the calls made: <<name, arguments...>>, an omitted argument being Undefined
MutatorCalls ==
  {<<"label", "Host">>, <<"description", "Round-trip time">>,
   <<"display", "code", Undefined>>,
   <<"filterable", Undefined, Undefined>>,
   <<"filterable", Some("input"), Undefined>>,
   <<"filterable", Some("timerange"), Undefined>>,
   <<"filterable", Some("checkbox"), Undefined>>,
   <<"filterable", Some("slider"), Some([min |-> Some(0), max |-> Some(MaxNum)])>>,
   <<"notFilterable">>, <<"defaultOpen">>, <<"commandDisabled">>, <<"hidden">>,
   <<"size", 100>>, <<"sortable">>, <<"optional">>, <<"sheet", Undefined>>}

\* the config the mutator c passes to createColBuilder, called on a builder of config
Apply(config, c) ==
  CASE c[1] = "label" -> label(config, c[2])
    [] c[1] = "description" -> description(config, c[2])
    [] c[1] = "display" -> display(config, c[2], c[3])
    [] c[1] = "filterable" -> filterable(config, c[2], c[3])
    [] c[1] = "notFilterable" -> notFilterable(config)
    [] c[1] = "defaultOpen" -> defaultOpen(config)
    [] c[1] = "commandDisabled" -> commandDisabled(config)
    [] c[1] = "hidden" -> hidden(config)
    [] c[1] = "size" -> size(config, c[2])
    [] c[1] = "sortable" -> sortable(config)
    [] c[1] = "optional" -> optional(config)
    [] c[1] = "sheet" -> sheet(config, c[2])

\* defaultOpen() and commandDisabled() on a column without filter: createColBuilder(config)
PassesConfig(config, c) == c[1] \in {"defaultOpen", "commandDisabled"} /\ config.filter = Null

\* Object.assign(config, override): the object at ref is overwritten
Assigned(h, ref, config) == [heap |-> [h EXCEPT ![ref] = config], ref |-> ref]

\* createColBuilder({ ...config, ...override }): the spread makes a new object
Copied(h, ref, config) == [heap |-> Append(h, config), ref |-> Len(h) + 1]

\* createColBuilder(config): the new builder closes over the same object
Shared(h, ref) == [heap |-> h, ref |-> ref]

\* a builder typed ColBuilder<T, any>: every call compiles
AcceptsAny(legal, c) == TRUE

\* whether the call compiles on a ColBuilder<T, F> with F = legal (the overloads)
Accepts(legal, c) ==
  IF c[1] # "filterable" THEN TRUE
  ELSE IF c[2] = Undefined THEN legal # {}
  ELSE IF c[2][1] \in {"input", "timerange"} THEN c[2][1] \in legal /\ c[3] = Undefined
  ELSE IF c[2][1] = "checkbox" THEN "checkbox" \in legal
  ELSE "slider" \in legal /\ c[3] # Undefined

\* the type parameter of the builder a call returns
Returns(legal, c) == IF c[1] = "notFilterable" THEN {} ELSE legal

\* col.string(), col.number(), ...: a new builder over a new config object
Factory ==
  /\ Len(builders) < MaxBuilders
  /\ \E config \in {string, number, boolean, timestamp, colEnum(LEVELS), record}
                     \cup {array(item) : item \in ItemBuilders} :
       /\ heap' = Append(heap, config)
       /\ builders' = Append(builders, [ref |-> Len(heap) + 1,
                                        F |-> LegalFilters(config.kind),
                                        born |-> config, from |-> 0,
                                        by |-> <<"col", config.kind>>])
  /\ UNCHANGED <<attempt, data, inferred, ext, pipeline>>

\* b.label(...), b.filterable(...), ... on any builder made so far
Call ==
  /\ Len(builders) < MaxBuilders
  /\ \E b \in 1..Len(builders), c \in MutatorCalls :
       LET cell == builders[b]
           config == heap[cell.ref]
           made == IF PassesConfig(config, c) THEN Shared(heap, cell.ref)
                   ELSE Copied(heap, cell.ref, Apply(config, c))
       IN  IF Accepts(cell.F, c)
             THEN /\ heap' = made.heap
                  /\ builders' = Append(builders, [ref |-> made.ref,
                                                   F |-> Returns(cell.F, c),
                                                   born |-> made.heap[made.ref],
                                                   from |-> b, by |-> c])
                  /\ attempt' = Some([receiver |-> b, call |-> c, accepted |-> TRUE,
                                      returned |-> Len(builders) + 1])
             ELSE /\ attempt' = Some([receiver |-> b, call |-> c, accepted |-> FALSE,
                                      returned |-> 0])
                  /\ UNCHANGED <<heap, builders>>
  /\ UNCHANGED <<data, inferred, ext, pipeline>>

NextBuilders == Factory \/ Call

SpecBuilders == Init /\ [][NextBuilders]_vars

\* b._config of the builder at index b
ConfigOf(b) == heap[builders[b].ref]

(* C12: builders are immutable: the config of every builder is, after any   *)
(* calls made on it or on builders derived from it, the config it was made  *)
(* with.                                                                    *)
C12_BuildersImmutable ==
  \A b \in 1..Len(builders) : ConfigOf(b) = builders[b].born

\* one builder was used twice, for two different columns, and kept its config
C12_Witness ==
  \E b, x, y \in 1..Len(builders) :
    /\ builders[x].from = b
    /\ builders[y].from = b
    /\ ConfigOf(x) # ConfigOf(y)
    /\ ConfigOf(x) # ConfigOf(b)
    /\ ConfigOf(y) # ConfigOf(b)
    /\ ConfigOf(b) = builders[b].born

(* C13: a filterable call whose filter type is not in the receiver's legal  *)
(* set is rejected and returns no builder; the legal sets of the factories  *)
(* are string {input}, number {input, slider, checkbox}, boolean, enum and  *)
(* array {checkbox}, timestamp {timerange}, record {}; notFilterable()      *)
(* returns a builder with the empty legal set, on which every filterable    *)
(* call is rejected, so that a builder with the empty set has no filter.    *)
C13_IllegalFilterRejected ==
  /\ \A b \in 1..Len(builders) :
       LET cell == builders[b]
       IN  /\ cell.from = 0 =>
                cell.F = CASE cell.by[2] = "string" -> {"input"}
                           [] cell.by[2] = "number" -> {"input", "slider", "checkbox"}
                           [] cell.by[2] \in {"boolean", "enum", "array"} -> {"checkbox"}
                           [] cell.by[2] = "timestamp" -> {"timerange"}
                           [] cell.by[2] = "record" -> {}
           /\ cell.by[1] = "notFilterable" => cell.F = {}
           /\ (cell.from # 0 /\ cell.by[1] # "notFilterable") => cell.F = builders[cell.from].F
           /\ cell.F = {} => ConfigOf(b).filter = Null
  /\ attempt # Undefined =>
       LET a == attempt[1]
           legal == builders[a.receiver].F
       IN  /\ ( /\ a.call[1] = "filterable"
                /\ \/ legal = {}
                   \/ a.call[2] # Undefined /\ a.call[2][1] \notin legal )
                => ~a.accepted
           /\ ~a.accepted => a.returned = 0
           /\ a.accepted =>
                /\ builders[a.returned].from = a.receiver
                /\ builders[a.returned].by = a.call

\* filterable was called on the builder notFilterable() returned, and rejected
C13_Witness ==
  /\ attempt # Undefined
  /\ attempt[1].call[1] = "filterable"
  /\ builders[attempt[1].receiver].by[1] = "notFilterable"
  /\ builders[builders[attempt[1].receiver].from].F # {}
  /\ ~attempt[1].accepted
  /\ attempt[1].returned = 0

-----------------------------------------------------------------------------
\* every column config held by a builder, a definition or a deserialized definition
ReachedConfigs ==
  (IF builder # Undefined THEN {builder[1]} ELSE {})
    \cup {definition[i].value : i \in Columns(definition)}
    \cup (IF restored # Undefined
            THEN {restored[1][i].value : i \in Columns(restored[1])} ELSE {})
    \cup {heap[a] : a \in 1..Len(heap)}

(* C14: every column config of kind record, whether built through the       *)
(* factories and mutators or by deserializeSchema, has filter null.         *)
C14_RecordNotFilterable ==
  \A c \in ReachedConfigs : c.kind = "record" => c.filter = Null

-----------------------------------------------------------------------------
(* The three ways a column config comes about, together: a chain of         *)
(* builders, a document written by hand, builders kept and reused.          *)
NextAll ==
  \/ builders = <<>> /\ Next
  \/ builders = <<>> /\ NextJSON
  \/ pc = "build" /\ builder = Undefined /\ draft = Undefined /\ json = Undefined
       /\ NextBuilders

SpecAll == Init /\ [][NextAll]_vars

\* the part of a config that says what the column holds
Structure(c) ==
  [kind |-> c.kind, enumValues |-> Get(c, "enumValues"), arrayItem |-> Get(c, "arrayItem")]

\* arrayItem is present exactly on arrays, enumValues only on enums
WellFormed(c) ==
  /\ Get(c, "arrayItem") # Undefined <=> c.kind = "array"
  /\ Get(c, "enumValues") # Undefined => c.kind = "enum"

(* C15: in every column config made by the factories, the mutators and      *)
(* deserializeSchema, arrayItem is present if and only if the kind is       *)
(* array and enumValues is present only if the kind is enum; a mutator      *)
(* returns a builder with the kind, enumValues and arrayItem of its         *)
(* receiver.                                                                *)
C15_StructureKept ==
  /\ [](/\ \A c \in ReachedConfigs : WellFormed(c)
        /\ \A b \in 1..Len(builders) :
             builders[b].from # 0 =>
               Structure(ConfigOf(b)) = Structure(ConfigOf(builders[b].from)))
  /\ [][(builder # Undefined /\ builder' # Undefined)
          => Structure(builder'[1]) = Structure(builder[1])]_vars

\* a chained array builder was defined, serialized and deserialized to an
\* array column that has its arrayItem
C15_Witness ==
  /\ builder # Undefined
  /\ builder[1].kind = "array"
  /\ builder[1].label # ""
  /\ restored # Undefined
  /\ \E i \in Columns(restored[1]) :
       /\ restored[1][i].value.kind = "array"
       /\ Get(restored[1][i].value, "arrayItem") # Undefined

-----------------------------------------------------------------------------
(* infer.ts: values as JSON.parse returns them *)

JNull == [null |-> TRUE]
JUndefined == [undefined |-> TRUE]
Arr(items) == [arr |-> items]
Obj(entries) == [obj |-> entries]

IsNullish(v) == DOMAIN v \subseteq {"null", "undefined"}
IsString(v) == "str" \in DOMAIN v
IsNumber(v) == "num" \in DOMAIN v
IsBoolean(v) == "bool" \in DOMAIN v
IsArray(v) == "arr" \in DOMAIN v
\* typeof v === "object" && !Array.isArray(v), for a v that is not null
IsPlainObject(v) == "obj" \in DOMAIN v

\* the number hi * 10^7 + lo + tenths / 10, with 0 <= lo < 10^7 and 0 <= tenths < 10
Dec(hi, lo, tenths) == [hi |-> hi, lo |-> lo, tenths |-> tenths]
Whole(n) == Dec(0, n, 0)

\* a < b
Less(a, b) ==
  \/ a.hi < b.hi
  \/ a.hi = b.hi /\ a.lo < b.lo
  \/ a.hi = b.hi /\ a.lo = b.lo /\ a.tenths < b.tenths

IsInteger(a) == a.tenths = 0

\* a bug: the first number is taken for the least
MathMinFirst(nums) == nums[1]

\* Math.min(...nums), Math.max(...nums) for a non-empty nums
MathMin(nums) == CHOOSE m \in {nums[i] : i \in 1..Len(nums)} :
                   \A i \in 1..Len(nums) : ~Less(nums[i], m)
MathMax(nums) == CHOOSE m \in {nums[i] : i \in 1..Len(nums)} :
                   \A i \in 1..Len(nums) : ~Less(m, nums[i])

UNIX_MS_MIN == Dec(100000, 0, 0)
UNIX_MS_MAX == Dec(999999, 9999999, 0)

\* s.charAt(i - 1)
At(s, i) == SubSeq(s, i, i)

DIGITS == "0123456789"
LOWER == "abcdefghijklmnopqrstuvwxyz"
UPPER == "ABCDEFGHIJKLMNOPQRSTUVWXYZ"

IsDigit(c) == \E i \in 1..Len(DIGITS) : At(DIGITS, i) = c
IsLower(c) == \E i \in 1..Len(LOWER) : At(LOWER, i) = c
IsUpper(c) == \E i \in 1..Len(UPPER) : At(UPPER, i) = c
DigitValue(c) == (CHOOSE i \in 1..Len(DIGITS) : At(DIGITS, i) = c) - 1
toUpperCase(c) ==
  IF IsLower(c) THEN At(UPPER, CHOOSE i \in 1..Len(LOWER) : At(LOWER, i) = c) ELSE c

\* /^\d{4}-\d{2}-\d{2}(T[\d:.Z+\-]+)?$/.test(value)
MatchesDatePattern(value) ==
  /\ Len(value) >= 10
  /\ \A i \in {1, 2, 3, 4, 6, 7, 9, 10} : IsDigit(At(value, i))
  /\ At(value, 5) = "-"
  /\ At(value, 8) = "-"
  /\ Len(value) > 10 =>
       /\ At(value, 11) = "T"
       /\ Len(value) >= 12
       /\ \A i \in 12..Len(value) :
            IsDigit(At(value, i)) \/ At(value, i) \in {":", ".", "Z", "+", "-"}

\* the two-digit number at positions i, i + 1
TwoDigits(value, i) == 10 * DigitValue(At(value, i)) + DigitValue(At(value, i + 1))

\* !isNaN(Date.parse(value)) for a value of the pattern above, in the forms
\* YYYY-MM-DD, YYYY-MM-DDTHH:mm and YYYY-MM-DDTHH:mm:ss with an optional Z
DateParses(value) ==
  /\ TwoDigits(value, 6) \in 1..12
  /\ TwoDigits(value, 9) \in 1..31
  /\ Len(value) > 10 =>
       LET n == IF At(value, Len(value)) = "Z" THEN Len(value) - 1 ELSE Len(value)
       IN  /\ n \in {16, 19}
           /\ \A i \in {12, 13, 15, 16} : IsDigit(At(value, i))
           /\ At(value, 14) = ":"
           /\ TwoDigits(value, 12) \in 0..23
           /\ TwoDigits(value, 15) \in 0..59
           /\ n = 19 =>
                /\ At(value, 17) = ":"
                /\ IsDigit(At(value, 18)) /\ IsDigit(At(value, 19))
                /\ TwoDigits(value, 18) \in 0..59

isIso8601(value) == MatchesDatePattern(value) /\ DateParses(value)

\* a bug: the upper end of the range is not tested
isUnixMsOpen(value) == IsInteger(value) /\ ~Less(value, UNIX_MS_MIN)

isUnixMs(value) ==
  IsInteger(value) /\ ~Less(value, UNIX_MS_MIN) /\ ~Less(UNIX_MS_MAX, value)

\* key.replace(/_/g, " ")
RECURSIVE SpaceUnderscores(_)
SpaceUnderscores(s) ==
  IF s = "" THEN ""
  ELSE (IF Head(s) = "_" THEN " " ELSE Head(s)) \o SpaceUnderscores(Tail(s))

\* label.replace(/([a-z])([A-Z])/g, "$1 $2")
RECURSIVE SplitCamel(_)
SplitCamel(s) ==
  IF Len(s) < 2 THEN s
  ELSE IF IsLower(Head(s)) /\ IsUpper(At(s, 2))
    THEN Head(s) \o " " \o SplitCamel(Tail(s))
    ELSE Head(s) \o SplitCamel(Tail(s))

keyToLabel(key) ==
  LET spaced == SplitCamel(SpaceUnderscores(key))
  IN  IF spaced = "" THEN "" ELSE toUpperCase(Head(spaced)) \o Tail(spaced)

\* the literal 10 of distinct.size <= 10
MaxEnumValues == 10

\* values.filter((v) => v !== null && v !== undefined)
RECURSIVE NonNull(_)
NonNull(values) ==
  IF values = <<>> THEN <<>>
  ELSE (IF IsNullish(Head(values)) THEN <<>> ELSE <<Head(values)>>) \o NonNull(Tail(values))

\* a bug: an item seen again is kept
DistinctKept(items) == items

\* Array.from(new Set(items)): the distinct items in the order first seen
RECURSIVE Distinct(_)
Distinct(items) ==
  IF items = <<>> THEN <<>>
  ELSE LET before == Distinct(SubSeq(items, 1, Len(items) - 1))
           last == items[Len(items)]
       IN  IF \E i \in 1..Len(before) : before[i] = last THEN before
           ELSE Append(before, last)

\* a bug: only the first array is inspected
FlatFirst(arrays) == Head(arrays).arr

\* arrays.flat()
RECURSIVE Flat(_)
Flat(arrays) ==
  IF arrays = <<>> THEN <<>> ELSE Head(arrays).arr \o Flat(Tail(arrays))

PlainFilter(type) == [type |-> type, defaultOpen |-> FALSE, commandDisabled |-> FALSE]

\* enumValues.map((v) => ({ label: v, value: v }))
OptionsOf(enumValues) ==
  [i \in 1..Len(enumValues) |-> [label |-> enumValues[i], value |-> Str(enumValues[i])]]

\* filter is Null or Some(FilterDescriptor)
makeDescriptor(key, text, dataType, filter) ==
  [key |-> key, label |-> text, dataType |-> dataType,
   optional |-> FALSE, hidden |-> FALSE, sortable |-> FALSE,
   display |-> [type |-> CASE dataType = "string" -> "text"
                           [] dataType = "number" -> "number"
                           [] dataType = "boolean" -> "boolean"
                           [] dataType = "timestamp" -> "timestamp"
                           [] dataType = "enum" -> "badge"
                           [] dataType = "array" -> "badge"
                           [] dataType = "record" -> "text"
                           [] OTHER -> "text"],
   filter |-> filter, sheet |-> Null]

\* the descriptor of a column of at most ten distinct strings, or of arrays of them
EnumDescriptor(key, text, dataType, enumValues) ==
  Spread(
    [key |-> key, label |-> text, dataType |-> dataType,
     optional |-> FALSE, hidden |-> FALSE, sortable |-> FALSE,
     display |-> [type |-> "badge"],
     filter |-> Some(Spread(PlainFilter("checkbox"),
                            [options |-> Some(OptionsOf(enumValues))])),
     sheet |-> Null],
    IF dataType = "array"
      THEN [arrayItemType |-> Some([dataType |-> "enum", enumValues |-> Some(enumValues)])]
      ELSE [enumValues |-> Some(enumValues)])

IsIsoString(v) == IsString(v) /\ isIso8601(v.str)
IsUnixMsNumber(v) == IsNumber(v) /\ isUnixMs(v.num)

inferColDescriptor(key, values) ==
  LET text == keyToLabel(key)
      nonNull == NonNull(values)
  IN  IF Len(nonNull) = 0
        THEN makeDescriptor(key, text, "string", Some(PlainFilter("input")))
      ELSE IF (\A i \in 1..Len(nonNull) : IsIsoString(nonNull[i]))
        THEN makeDescriptor(key, text, "timestamp", Some(PlainFilter("timerange")))
      ELSE IF (\A i \in 1..Len(nonNull) : IsUnixMsNumber(nonNull[i]))
        THEN makeDescriptor(key, text, "timestamp", Some(PlainFilter("timerange")))
      ELSE IF (\A i \in 1..Len(nonNull) : IsBoolean(nonNull[i]))
        THEN makeDescriptor(key, text, "boolean", Some(PlainFilter("checkbox")))
      ELSE IF (\A i \in 1..Len(nonNull) : IsNumber(nonNull[i]))
        THEN LET nums == [i \in 1..Len(nonNull) |-> nonNull[i].num]
                 min == MathMin(nums)
                 max == MathMax(nums)
                 filter == IF min # max
                             THEN Spread(PlainFilter("slider"),
                                         [min |-> Some(min), max |-> Some(max)])
                             ELSE PlainFilter("input")
             IN  Spread(makeDescriptor(key, text, "number", Some(filter)),
                        [display |-> [type |-> "number"]])
      ELSE IF (\A i \in 1..Len(nonNull) : IsArray(nonNull[i]))
        THEN LET allItems == NonNull(Flat(nonNull))
                 allStrings == Len(allItems) > 0 /\ (\A i \in 1..Len(allItems) : IsString(allItems[i]))
                 distinct == Distinct([i \in 1..Len(allItems) |-> allItems[i].str])
             IN  IF allStrings /\ Len(distinct) <= MaxEnumValues
                   THEN EnumDescriptor(key, text, "array", distinct)
                   ELSE makeDescriptor(key, text, "array", Null)
      ELSE IF (\A i \in 1..Len(nonNull) : IsPlainObject(nonNull[i]))
        THEN makeDescriptor(key, text, "record", Null)
      ELSE IF (\A i \in 1..Len(nonNull) : IsString(nonNull[i]))
        THEN LET distinct == Distinct([i \in 1..Len(nonNull) |-> nonNull[i].str])
             IN  IF Len(distinct) <= MaxEnumValues
                   THEN EnumDescriptor(key, text, "enum", distinct)
                   ELSE makeDescriptor(key, text, "string", Some(PlainFilter("input")))
      ELSE makeDescriptor(key, text, "string", Some(PlainFilter("input")))

\* keyValues: a Map, enumerated in the order its keys were first set
MapHas(map, key) == \E i \in 1..Len(map) : map[i].key = key

\* a bug: a key seen again starts its list of values anew
MapPushAnew(map, key, value) ==
  IF MapHas(map, key)
    THEN [i \in 1..Len(map) |->
            IF map[i].key = key THEN [key |-> key, values |-> <<value>>] ELSE map[i]]
    ELSE Append(map, [key |-> key, values |-> <<value>>])

\* if (!keyValues.has(key)) keyValues.set(key, []); keyValues.get(key)!.push(value)
MapPush(map, key, value) ==
  IF MapHas(map, key)
    THEN [i \in 1..Len(map) |->
            IF map[i].key = key THEN [key |-> key, values |-> Append(map[i].values, value)]
            ELSE map[i]]
    ELSE Append(map, [key |-> key, values |-> <<value>>])

\* the inner loop over Object.entries(row)
RECURSIVE CollectEntries(_, _, _)
CollectEntries(entries, i, map) ==
  IF i > Len(entries) THEN map
  ELSE CollectEntries(entries, i + 1, MapPush(map, entries[i].key, entries[i].value))

\* the loop over the rows: a row that is not a plain object is skipped
RECURSIVE CollectRows(_, _, _)
CollectRows(rows, i, map) ==
  IF i > Len(rows) THEN map
  ELSE CollectRows(rows, i + 1,
         IF IsPlainObject(rows[i]) THEN CollectEntries(rows[i].obj, 1, map) ELSE map)

inferSchemaFromJSON(d) ==
  IF ~IsArray(d) \/ Len(d.arr) = 0 THEN [columns |-> <<>>]
  ELSE LET keyValues == CollectRows(d.arr, 1, <<>>)
       IN  [columns |-> [i \in 1..Len(keyValues) |->
                           inferColDescriptor(keyValues[i].key, keyValues[i].values)]]

-----------------------------------------------------------------------------
(* The data inferSchemaFromJSON is called with *)

LETTERS == <<"a", "b", "c", "d", "e", "f", "g", "h", "i", "j", "k">>

\* the first n letters, as string values
Strings(n) == [i \in 1..n |-> Str(LETTERS[i])]

SampleNumbers ==
  {Whole(5), Whole(10), Dec(99999, 9999999, 0), UNIX_MS_MIN, Dec(150000, 0, 5),
   UNIX_MS_MAX, Dec(1000000, 0, 0)}

SampleStrings ==
  {"a", "b", "2024-01-15", "2024-01-15T10:00:00Z", "2024-13-45", "20240115"}

SampleArrays ==
  {<<>>, Strings(1), <<Str("k")>>, <<Str("a"), JNull>>, <<Str("a"), Num(Whole(5))>>,
   <<Num(Whole(5))>>, <<Arr(Strings(1))>>, Strings(MaxEnumValues),
   Strings(MaxEnumValues + 1)}

SampleValues ==
  {JNull, JUndefined, Bool(TRUE), Bool(FALSE), Obj(<<>>),
   Obj(<<[key |-> "a", value |-> Num(Whole(5))]>>)}
    \cup {Num(n) : n \in SampleNumbers}
    \cup {Str(s) : s \in SampleStrings}
    \cup {Arr(a) : a \in SampleArrays}

\* the lists of values one key takes: short lists of any values, and lists of
\* ten and eleven distinct strings followed by a short list
ValueLists ==
  LET short == UNION {[1..n -> SampleValues] : n \in 0..MaxValues}
      tails == UNION {[1..n -> SampleValues] : n \in 0..(MaxValues - 1)}
  IN  short \cup {Strings(n) \o t : n \in {MaxEnumValues, MaxEnumValues + 1}, t \in tails}

\* { [key]: value }: the object literal with the properties in the order written
RECURSIVE ObjectLiteral(_)
ObjectLiteral(written) ==
  IF written = <<>> THEN <<>>
  ELSE ObjSet(ObjectLiteral(SubSeq(written, 1, Len(written) - 1)),
              written[Len(written)][1], written[Len(written)][2])

\* rows of a table with several keys, and rows that are not plain objects
SampleRows ==
  {Obj(ObjectLiteral(w)) :
     w \in {<<>>,
            <<<<"b", Num(Whole(5))>>>>,
            <<<<"b", JNull>>>>,
            <<<<"2", Str("a")>>>>,
            <<<<"b", Num(Whole(10))>>, <<"2", Bool(TRUE)>>>>,
            <<<<"createdAt", Str("2024-01-15")>>, <<"b", Str("a")>>>>,
            <<<<"user_id", JNull>>, <<"10", Arr(<<>>)>>, <<"2", JNull>>>>}}
    \cup {JNull, Num(Whole(5)), Str("a"), Arr(<<Str("a")>>)}

DataSamples ==
  {Arr([i \in 1..Len(vl) |-> Obj(<<[key |-> "user_id", value |-> vl[i]]>>)]) :
     vl \in ValueLists}
    \cup {Arr(rows) : rows \in UNION {[1..n -> SampleRows] : n \in 0..MaxRows}}
    \cup {JNull, Obj(<<>>), Str("a")}

InitInfer ==
  /\ builder = Undefined
  /\ F = {}
  /\ calls = 0
  /\ declared = <<>>
  /\ definition = <<>>
  /\ result = Undefined
  /\ json = Undefined
  /\ restored = Undefined
  /\ result2 = Undefined
  /\ json2 = Undefined
  /\ draft = Undefined
  /\ pc = "build"
  /\ heap = <<>>
  /\ builders = <<>>
  /\ attempt = Undefined
  /\ data \in {Some(d) : d \in DataSamples}
  /\ inferred = Undefined
  /\ ExtUnset

InferSchemaFromJSON ==
  /\ data # Undefined
  /\ inferred = Undefined
  /\ inferred' = Some(inferSchemaFromJSON(data[1]))
  /\ UNCHANGED <<data, heap, builders, attempt, ext, pipeline>>

NextInfer == InferSchemaFromJSON

SpecInfer == InitInfer /\ [][NextInfer]_vars

-----------------------------------------------------------------------------
(* What inferSchemaFromJSON is to return, stated over its input *)

\* the entries of the rows that are plain objects, in the order a scan meets them
RECURSIVE Entries(_)
Entries(rows) ==
  IF rows = <<>> THEN <<>>
  ELSE (IF IsPlainObject(Head(rows)) THEN Head(rows).obj ELSE <<>>) \o Entries(Tail(rows))

\* the values the rows of d give to key, in row order
Sampled(d, key) ==
  LET OfKey(e) == e.key = key
      found == SelectSeq(Entries(d.arr), OfKey)
  IN  [i \in 1..Len(found) |-> found[i].value]

\* the values of a list that are neither null nor undefined
Present(values) == {values[i] : i \in {j \in 1..Len(values) : ~IsNullish(values[j])}}

InUnixMsRange(n) == ~Less(n, UNIX_MS_MIN) /\ ~Less(UNIX_MS_MAX, n)

\* a mixture of types: the values are of no single type
Mixture(S) ==
  /\ ~ \A v \in S : IsString(v)
  /\ ~ \A v \in S : IsNumber(v)
  /\ ~ \A v \in S : IsBoolean(v)
  /\ ~ \A v \in S : IsArray(v)
  /\ ~ \A v \in S : IsPlainObject(v)

\* the data types the nine rules allow for the non-null values S, the first
\* matching rule deciding; unixMs says whether rule 3 matches
Classes(S, unixMs) ==
  IF S = {} THEN {"string"}
  ELSE IF \A v \in S : IsString(v) /\ isIso8601(v.str) THEN {"timestamp"}
  ELSE IF unixMs THEN {"timestamp"}
  ELSE IF \A v \in S : IsBoolean(v) THEN {"boolean"}
  ELSE IF \A v \in S : IsNumber(v) THEN {"number"}
  ELSE IF \A v \in S : IsArray(v) THEN {"array"}
  ELSE IF \A v \in S : IsPlainObject(v) THEN {"record"}
  ELSE IF \A v \in S : IsString(v) THEN {"enum", "string"}
  ELSE {"string"}

\* the columns inferred, with the values sampled for each
InferredColumns ==
  IF inferred = Undefined \/ ~IsArray(data[1]) THEN {}
  ELSE {[col |-> inferred[1].columns[k],
         values |-> Sampled(data[1], inferred[1].columns[k].key),
         present |-> Present(Sampled(data[1], inferred[1].columns[k].key))] :
          k \in 1..Len(inferred[1].columns)}

\* C16 (as amended): every inferred column is classified by the nine rules in
\* their order, the first match winning, where rule 3 asks for whole numbers in
\* [1,000,000,000,000, 9,999,999,999,999]; a mixture of types gives string
\* with an input filter
C16_Precedence ==
  \A c \in InferredColumns :
    /\ c.col.dataType \in
         Classes(c.present,
                 \A v \in c.present :
                   IsNumber(v) /\ IsInteger(v.num) /\ InUnixMsRange(v.num))
    /\ (c.present # {} /\ Mixture(c.present)) =>
         c.col.filter = Some(PlainFilter("input"))

\* C16 (as claimed): the same, with rule 3 matching all numbers in
\* [1,000,000,000,000, 9,999,999,999,999]
C16_AllNumbersInRange ==
  \A c \in InferredColumns :
    /\ c.col.dataType \in
         Classes(c.present, \A v \in c.present : IsNumber(v) /\ InUnixMsRange(v.num))
    /\ (c.present # {} /\ Mixture(c.present)) =>
         c.col.filter = Some(PlainFilter("input"))

\* C16: two samples at the ends of the range have been classified as timestamp
C16_Witness ==
  \E c \in InferredColumns :
    /\ c.present = {Num(UNIX_MS_MIN), Num(UNIX_MS_MAX)}
    /\ c.col.dataType = "timestamp"
    /\ c.col.filter = Some(PlainFilter("timerange"))

\* C17: a key classified as number has an input filter when the least and the
\* greatest of its non-null values are equal, and otherwise a slider filter
\* whose min is the least and whose max is the greatest of them
C17_NumericBounds ==
  \A c \in InferredColumns :
    c.col.dataType = "number" =>
      \E least, greatest \in {v.num : v \in c.present} :
        /\ \A v \in c.present : ~Less(v.num, least) /\ ~Less(greatest, v.num)
        /\ c.col.filter =
             IF least = greatest THEN Some(PlainFilter("input"))
             ELSE Some(Spread(PlainFilter("slider"),
                              [min |-> Some(least), max |-> Some(greatest)]))

\* C17: the values 10 and 5, sampled in that order, gave a slider from 5 to 10
C17_Witness ==
  /\ inferred # Undefined
  /\ IsArray(data[1])
  /\ Sampled(data[1], "user_id") = <<Num(Whole(10)), Num(Whole(5))>>
  /\ Len(inferred[1].columns) = 1
  /\ inferred[1].columns[1].dataType = "number"
  /\ inferred[1].columns[1].filter[1].type = "slider"
  /\ inferred[1].columns[1].filter[1].min = Some(Whole(5))
  /\ inferred[1].columns[1].filter[1].max = Some(Whole(10))

\* the place at which x is first seen in items
FirstSeen(items, x) ==
  CHOOSE i \in 1..Len(items) : items[i] = x /\ \A j \in 1..(i - 1) : items[j] # x

\* enumValues lists each string of items once, in the order first seen
InFirstSeenOrder(enumValues, items) ==
  /\ {Str(enumValues[i]) : i \in 1..Len(enumValues)}
       = {items[i] : i \in {j \in 1..Len(items) : IsString(items[j])}}
  /\ \A i, j \in 1..Len(enumValues) :
       i < j => FirstSeen(items, Str(enumValues[i])) < FirstSeen(items, Str(enumValues[j]))

\* the checkbox filter whose options have the strings as label and as value
CheckboxOver(enumValues) ==
  [type |-> "checkbox", defaultOpen |-> FALSE, commandDisabled |-> FALSE,
   options |-> Some([i \in 1..Len(enumValues) |->
                       [label |-> enumValues[i], value |-> Str(enumValues[i])]])]

\* C18: a key whose non-null values are all strings, not all of them ISO dates,
\* is an enum column whose enumValues and checkbox options are the distinct
\* strings in the order first seen when there are at most 10 of them, and a
\* string column with an input filter and no enumValues when there are 11 or more
C18_EnumThreshold ==
  \A c \in InferredColumns :
    (/\ c.present # {}
     /\ \A v \in c.present : IsString(v)
     /\ \E v \in c.present : ~isIso8601(v.str)) =>
      IF Cardinality(c.present) <= 10
        THEN /\ c.col.dataType = "enum"
             /\ Get(c.col, "enumValues") # Undefined
             /\ InFirstSeenOrder(c.col.enumValues[1], c.values)
             /\ c.col.filter = Some(CheckboxOver(c.col.enumValues[1]))
        ELSE /\ c.col.dataType = "string"
             /\ c.col.filter = Some(PlainFilter("input"))
             /\ Get(c.col, "enumValues") = Undefined

\* C18: eleven sampled strings, ten of them distinct, gave an enum column of ten values
C18_Witness ==
  \E c \in InferredColumns :
    /\ Len(c.values) = 11
    /\ Cardinality(c.present) = 10
    /\ c.col.dataType = "enum"
    /\ Len(c.col.enumValues[1]) = 10

\* the non-null items of the arrays sampled
ItemsOf(S) == UNION {Present(v.arr) : v \in S}

KeysScanned(d) == [i \in 1..Len(Entries(d.arr)) |-> Entries(d.arr)[i].key]

\* C20: inferSchemaFromJSON returns no column for an input that is empty or
\* not an array, and otherwise exactly one column per key of the records that
\* are plain objects, in the order the keys are first seen, each column
\* inferred from the values of every record that has the key, nulls included
C20_OneColumnPerKey ==
  inferred # Undefined =>
    LET columns == inferred[1].columns
    IN  IF ~IsArray(data[1]) \/ data[1].arr = <<>> THEN columns = <<>>
        ELSE LET keys == KeysScanned(data[1])
             IN  /\ {columns[k].key : k \in 1..Len(columns)}
                      = {keys[i] : i \in 1..Len(keys)}
                 /\ \A i, j \in 1..Len(columns) :
                      i < j => FirstSeen(keys, columns[i].key) < FirstSeen(keys, columns[j].key)
                 /\ \A k \in 1..Len(columns) :
                      columns[k] = inferColDescriptor(columns[k].key,
                                                      Sampled(data[1], columns[k].key))

\* C20: two records sharing the key "2" gave four columns in first-seen order,
\* the shared key's column inferred from both of its values
C20_Witness ==
  /\ inferred # Undefined
  /\ IsArray(data[1])
  /\ KeysScanned(data[1]) = <<"2", "b", "2", "10", "user_id">>
  /\ Sampled(data[1], "2") = <<Bool(TRUE), JNull>>
  /\ [k \in 1..Len(inferred[1].columns) |-> inferred[1].columns[k].key]
       = <<"2", "b", "10", "user_id">>
  /\ inferred[1].columns[1].dataType = "boolean"

-----------------------------------------------------------------------------
(* The filter query language: deserialize(schema)(text).  The parser is      *)
(* specified in section 4.5 and exercised by the tests of utils; a string   *)
(* is parsed character by character.                                        *)

\* the least i with s[i] = c, or 0
IndexOf(s, c) ==
  IF \E i \in 1..Len(s) : At(s, i) = c
    THEN CHOOSE i \in 1..Len(s) : At(s, i) = c /\ \A j \in 1..(i - 1) : At(s, j) # c
    ELSE 0

\* s.trim()
RECURSIVE Trim(_)
Trim(s) ==
  IF s = "" THEN ""
  ELSE IF Head(s) = " " THEN Trim(Tail(s))
  ELSE IF At(s, Len(s)) = " " THEN Trim(SubSeq(s, 1, Len(s) - 1))
  ELSE s

\* the pieces of s between the separators
RECURSIVE Split(_, _)
Split(s, separator) ==
  LET p == IndexOf(s, separator)
  IN  IF p = 0 THEN <<s>>
      ELSE <<SubSeq(s, 1, p - 1)>> \o Split(SubSeq(s, p + 1, Len(s)), separator)

\* the flat object accumulated from the tokens, a later pair replacing an
\* earlier one of the same name; a token without a colon, without a name or
\* without a value is skipped
RECURSIVE Accumulate(_, _)
Accumulate(tokens, prev) ==
  IF tokens = <<>> THEN prev
  ELSE LET curr == Head(tokens)
           p == IndexOf(curr, ":")
           name == SubSeq(curr, 1, p - 1)
           value == SubSeq(curr, p + 1, Len(curr))
       IN  Accumulate(Tail(tokens),
                      IF p = 0 \/ name = "" \/ value = "" THEN prev
                      ELSE Spread(prev, name :> value))

\* the number a string of decimal digits denotes
RECURSIVE ParseDigits(_)
ParseDigits(s) ==
  IF s = "" THEN 0
  ELSE 10 * ParseDigits(SubSeq(s, 1, Len(s) - 1)) + DigitValue(At(s, Len(s)))

\* the caller's schema types one raw value: z.string(), z.coerce.number()
\* (NaN is not a number), z.number() (a string is not a number)
Typed(field, raw) ==
  CASE field.type = "string" -> Some(Str(raw))
    [] field.type = "coerce.number" ->
         IF \A i \in 1..Len(raw) : IsDigit(At(raw, i)) THEN Some(Num(ParseDigits(raw)))
         ELSE Undefined
    [] field.type = "number" -> Undefined

\* schema.safeParse(obj): a tagged result
safeParse(schema, obj) ==
  LET shape == {schema.shape[i] : i \in 1..Len(schema.shape)}
      issues ==
        {[code |-> "invalid_type", path |-> f.name] :
           f \in {g \in shape : IF g.name \in DOMAIN obj THEN Typed(g, obj[g.name]) = Undefined
                                ELSE ~g.optional}}
          \cup (IF schema.strict /\ DOMAIN obj \ {f.name : f \in shape} # {}
                  THEN {[code |-> "unrecognized_keys",
                         keys |-> DOMAIN obj \ {f.name : f \in shape}]}
                  ELSE {})
      present == {f \in shape : f.name \in DOMAIN obj}
  IN  IF issues = {}
        THEN [success |-> TRUE,
              data |-> [n \in {f.name : f \in present} |->
                          Typed(CHOOSE f \in present : f.name = n, obj[n])[1]]]
        ELSE [success |-> FALSE, error |-> issues]

\* a bug: the schema's parse is used, which throws the validation error
deserializeThrowing(schema, text) ==
  LET outcome == safeParse(schema, Accumulate(Split(Trim(text), " "), EmptyObject))
  IN  IF outcome.success THEN outcome ELSE Thrown("ZodError", outcome.error)

\* a bug: every token with a colon is kept
deserializeKeeping(schema, text) ==
  LET tokens == Split(Trim(text), " ")
      kept == SelectSeq(tokens, LAMBDA t : IndexOf(t, ":") > 0)
  IN  safeParse(schema,
        [n \in {SubSeq(kept[i], 1, IndexOf(kept[i], ":") - 1) : i \in 1..Len(kept)} |->
           LET last == CHOOSE i \in 1..Len(kept) :
                         /\ SubSeq(kept[i], 1, IndexOf(kept[i], ":") - 1) = n
                         /\ \A j \in (i + 1)..Len(kept) :
                              SubSeq(kept[j], 1, IndexOf(kept[j], ":") - 1) # n
           IN  SubSeq(kept[last], IndexOf(kept[last], ":") + 1, Len(kept[last]))])

\* deserialize(schema)(text)
deserialize(schema, text) ==
  safeParse(schema, Accumulate(Split(Trim(text), " "), EmptyObject))

(* The schemas and texts of the tests, and texts made of their tokens *)

QuerySchemas ==
  {[shape |-> <<[name |-> "q", type |-> "string", optional |-> FALSE],
                [name |-> "page", type |-> "coerce.number", optional |-> FALSE]>>,
    strict |-> FALSE],
   [shape |-> <<[name |-> "q", type |-> "string", optional |-> TRUE],
                [name |-> "page", type |-> "coerce.number", optional |-> TRUE]>>,
    strict |-> FALSE],
   [shape |-> <<[name |-> "count", type |-> "number", optional |-> FALSE]>>,
    strict |-> TRUE],
   [shape |-> <<[name |-> "q", type |-> "string", optional |-> FALSE]>>,
    strict |-> TRUE]}

QueryTokens ==
  {"q:hello", "q:a:b", "page:2", "page:x", "nocolon", ":orphan", "q2:", ":",
   "extra:field", "count:7"}

\* the tokens joined by the separator
RECURSIVE Joined(_, _)
Joined(tokens, separator) ==
  IF tokens = <<>> THEN ""
  ELSE IF Len(tokens) = 1 THEN tokens[1]
  ELSE tokens[1] \o separator \o Joined(Tail(tokens), separator)

QueryTexts ==
  {pad \o Joined(tokens, separator) \o pad :
     pad \in {"", "  "}, separator \in {" ", "  "},
     tokens \in UNION {[1..n -> QueryTokens] : n \in 0..MaxTokens}}

InitQuery ==
  /\ builder = Undefined
  /\ F = {}
  /\ calls = 0
  /\ declared = <<>>
  /\ definition = <<>>
  /\ result = Undefined
  /\ json = Undefined
  /\ restored = Undefined
  /\ result2 = Undefined
  /\ json2 = Undefined
  /\ draft = Undefined
  /\ pc = "build"
  /\ heap = <<>>
  /\ builders = <<>>
  /\ attempt = Undefined
  /\ data = Undefined
  /\ inferred = Undefined
  /\ checked = Undefined
  /\ query \in {Some([schema |-> s, text |-> t]) : s \in QuerySchemas, t \in QueryTexts}
  /\ parsed = Undefined
  /\ filters = Undefined
  /\ serialized = Undefined
  /\ fields = Undefined
  /\ filterSchema = Undefined
  /\ emitted = Undefined

Deserialize ==
  /\ query # Undefined
  /\ parsed = Undefined
  /\ parsed' = Some(deserialize(query[1].schema, query[1].text))
  /\ UNCHANGED <<checked, query, filters, serialized, fields, filterSchema, emitted>>
  /\ UNCHANGED <<heap, builders, attempt, data, inferred, pipeline>>

NextQuery == Deserialize

SpecQuery == InitQuery /\ [][NextQuery]_vars

\* the tokens of a text: the maximal runs of characters other than the space,
\* each given by its first and last position
TokensOf(text) ==
  {t \in (1..Len(text)) \X (1..Len(text)) :
     /\ t[1] <= t[2]
     /\ \A i \in t[1]..t[2] : At(text, i) # " "
     /\ t[1] = 1 \/ At(text, t[1] - 1) = " "
     /\ t[2] = Len(text) \/ At(text, t[2] + 1) = " "}

\* the position of the first colon of a token, or 0
ColonOf(text, t) ==
  IF \E p \in t[1]..t[2] : At(text, p) = ":"
    THEN CHOOSE p \in t[1]..t[2] :
           At(text, p) = ":" /\ \A r \in t[1]..(p - 1) : At(text, r) # ":"
    ELSE 0

\* the name:value tokens: a colon with a name before it and a value after it
PairsOf(text) ==
  {t \in TokensOf(text) : t[1] < ColonOf(text, t) /\ ColonOf(text, t) < t[2]}

NameOf(text, t) == SubSeq(text, t[1], ColonOf(text, t) - 1)

\* the object the name:value tokens denote, the last token of a name giving its value
PairsObject(text) ==
  [n \in {NameOf(text, t) : t \in PairsOf(text)} |->
     LET last == CHOOSE t \in PairsOf(text) :
                   /\ NameOf(text, t) = n
                   /\ \A u \in PairsOf(text) : NameOf(text, u) = n => u[1] <= t[1]
     IN  SubSeq(text, ColonOf(text, last) + 1, last[2])]

\* C21: the parser drops every token without a colon, with an empty name or
\* with an empty value, and its outcome is that of validating the object of
\* the remaining name:value tokens against the caller's schema
C21_MalformedDropped ==
  parsed # Undefined =>
    parsed[1] = safeParse(query[1].schema, PairsObject(query[1].text))

\* C21: a text with a token that has no colon and a token that has no name
\* was parsed with success into the object of no pair
C21_Witness ==
  /\ parsed # Undefined
  /\ query[1].text = "nocolon :orphan"
  /\ PairsOf(query[1].text) = {}
  /\ parsed[1].success
  /\ DOMAIN parsed[1].data = {}

\* the pairs satisfy the schema: every key of the shape is there and can be
\* typed, or is optional and not there, and a strict schema meets no other key
Satisfies(schema, obj) ==
  /\ \A i \in 1..Len(schema.shape) :
       LET f == schema.shape[i]
       IN  IF f.name \in DOMAIN obj THEN Typed(f, obj[f.name]) # Undefined ELSE f.optional
  /\ schema.strict => DOMAIN obj \subseteq {schema.shape[i].name : i \in 1..Len(schema.shape)}

\* C22: the parser returns a tagged result and never throws: success with the
\* typed pairs when the accumulated pairs satisfy the schema, and failure
\* with the validation error otherwise
C22_TaggedResult ==
  parsed # Undefined =>
    LET r == parsed[1]
        obj == PairsObject(query[1].text)
    IN  /\ "threw" \notin DOMAIN r
        /\ "success" \in DOMAIN r
        /\ IF Satisfies(query[1].schema, obj)
             THEN /\ r.success
                  /\ \A i \in 1..Len(query[1].schema.shape) :
                       LET f == query[1].schema.shape[i]
                       IN  f.name \in DOMAIN obj =>
                             /\ f.name \in DOMAIN r.data
                             /\ r.data[f.name] = Typed(f, obj[f.name])[1]
             ELSE /\ ~r.success
                  /\ "data" \notin DOMAIN r
                  /\ r.error # {}

\* C22: a text without the required key page was parsed into a failure
\* that names page
C22_Witness ==
  /\ parsed # Undefined
  /\ query[1].text = "q:hello"
  /\ \E i \in 1..Len(query[1].schema.shape) :
       query[1].schema.shape[i].name = "page" /\ ~query[1].schema.shape[i].optional
  /\ ~parsed[1].success
  /\ [code |-> "invalid_type", path |-> "page"] \in parsed[1].error

-----------------------------------------------------------------------------
(* The filter query language: serializeColumFilters(columnFilters,          *)
(* filterFields), specified in section 4.5 and exercised by the tests of     *)
(* utils.  The delimiters are three fixed, distinct characters.             *)

\* `${value}` of a scalar
TextOf(v) == IF IsString(v) THEN v.str ELSE ToString(v.num)

\* a bug: a field that is not found counts as an input field
findFieldOpen(filterFields, id) ==
  LET all == IF filterFields = Undefined THEN <<>> ELSE filterFields[1]
      found == {i \in 1..Len(all) : all[i].value = id}
  IN  IF found = {} THEN [type |-> "input"]
      ELSE all[CHOOSE i \in found : \A j \in found : i <= j]

\* filterFields?.find(field => field.value === id), or the excluded field
findField(filterFields, id) ==
  LET all == IF filterFields = Undefined THEN <<>> ELSE filterFields[1]
      found == {i \in 1..Len(all) : all[i].value = id}
  IN  IF found = {} THEN [commandDisabled |-> TRUE]
      ELSE all[CHOOSE i \in found : \A j \in found : i <= j]

\* a bug: a slider pair is joined like a checkbox array
encodeCommas(type, value, delimiters) ==
  IF IsArray(value)
    THEN Joined([i \in 1..Len(value.arr) |-> TextOf(value.arr[i])],
                CASE type = "slider" -> delimiters.array
                  [] type = "checkbox" -> delimiters.array
                  [] type = "timerange" -> delimiters.range)
    ELSE TextOf(value)

\* the codec of the field's filter kind
encode(type, value, delimiters) ==
  IF IsArray(value)
    THEN Joined([i \in 1..Len(value.arr) |-> TextOf(value.arr[i])],
                CASE type = "slider" -> delimiters.slider
                  [] type = "checkbox" -> delimiters.array
                  [] type = "timerange" -> delimiters.range)
    ELSE TextOf(value)

RECURSIVE serializeFrom(_, _, _, _, _)
serializeFrom(columnFilters, i, filterFields, delimiters, prev) ==
  IF i > Len(columnFilters) THEN prev
  ELSE LET curr == columnFilters[i]
           field == findField(filterFields, curr.id)
       IN  serializeFrom(columnFilters, i + 1, filterFields, delimiters,
             IF "commandDisabled" \in DOMAIN field /\ field.commandDisabled THEN prev
             ELSE prev \o curr.id \o ":" \o encode(field.type, curr.value, delimiters) \o " ")

serializeColumFilters(columnFilters, filterFields, delimiters) ==
  serializeFrom(columnFilters, 1, filterFields, delimiters, "")

(* The field lists and entries of the tests *)

TestFields ==
  <<[label |-> "Status", value |-> "status", type |-> "checkbox"],
    [label |-> "Level", value |-> "level", type |-> "checkbox"],
    [label |-> "Date", value |-> "date", type |-> "timerange"],
    [label |-> "Host", value |-> "host", type |-> "input"],
    [label |-> "Latency", value |-> "latency", type |-> "slider", min |-> 0, max |-> 5000]>>

HostDisabled ==
  [label |-> "Host", value |-> "host", type |-> "input", commandDisabled |-> TRUE]

FieldLists ==
  {Undefined,
   Some(<<>>),
   Some(TestFields),
   Some(<<HostDisabled>>),
   Some(<<HostDisabled, TestFields[2]>>),
   Some(<<Spread(TestFields[2], [commandDisabled |-> FALSE]), TestFields[5], HostDisabled>>)}

FilterEntries ==
  {[id |-> "host", value |-> Str("example.com")],
   [id |-> "level", value |-> Arr(<<Str("error"), Str("warn")>>)],
   [id |-> "level", value |-> Arr(<<Str("error")>>)],
   [id |-> "latency", value |-> Arr(<<Num(0), Num(500)>>)],
   [id |-> "date", value |-> Arr(<<Str("2024-01-01"), Str("2024-01-31")>>)],
   [id |-> "status", value |-> Arr(<<Num(200), Num(404)>>)],
   [id |-> "status", value |-> Num(200)],
   [id |-> "unknown", value |-> Str("foo")]}

DelimiterCharacters == {",", "-", "~"}

Delimiters ==
  {d \in [array : DelimiterCharacters, range : DelimiterCharacters,
          slider : DelimiterCharacters] :
     d.array # d.range /\ d.array # d.slider /\ d.range # d.slider}

InitFilters ==
  /\ builder = Undefined
  /\ F = {}
  /\ calls = 0
  /\ declared = <<>>
  /\ definition = <<>>
  /\ result = Undefined
  /\ json = Undefined
  /\ restored = Undefined
  /\ result2 = Undefined
  /\ json2 = Undefined
  /\ draft = Undefined
  /\ pc = "build"
  /\ heap = <<>>
  /\ builders = <<>>
  /\ attempt = Undefined
  /\ data = Undefined
  /\ inferred = Undefined
  /\ checked = Undefined
  /\ query = Undefined
  /\ parsed = Undefined
  /\ filters \in {Some([columnFilters |-> cf, filterFields |-> ff, delimiters |-> d]) :
                    cf \in UNION {[1..n -> FilterEntries] : n \in 0..MaxFilters},
                    ff \in FieldLists, d \in Delimiters}
  /\ serialized = Undefined
  /\ fields = Undefined
  /\ filterSchema = Undefined
  /\ emitted = Undefined

SerializeColumFilters ==
  /\ filters # Undefined
  /\ serialized = Undefined
  /\ serialized' = Some(serializeColumFilters(filters[1].columnFilters,
                                               filters[1].filterFields,
                                               filters[1].delimiters))
  /\ UNCHANGED <<checked, query, parsed, filters, fields, filterSchema, emitted>>
  /\ UNCHANGED <<heap, builders, attempt, data, inferred, pipeline>>

NextFilters == SerializeColumFilters

SpecFilters == InitFilters /\ [][NextFilters]_vars

\* the field descriptor matching an entry, if any
MatchOf(entry) ==
  IF filters[1].filterFields = Undefined THEN {}
  ELSE LET all == filters[1].filterFields[1]
           found == {i \in 1..Len(all) : all[i].value = entry.id}
       IN  {all[i] : i \in {j \in found : \A k \in found : j <= k}}

\* the entry is rendered: a field matches and does not exclude it
Rendered(entry) ==
  \E f \in MatchOf(entry) : ~("commandDisabled" \in DOMAIN f /\ f.commandDisabled)

\* key, colon and encoded value of a rendered entry
TokenOf(entry) ==
  LET f == CHOOSE g \in MatchOf(entry) : TRUE
      d == filters[1].delimiters
      v == entry.value
      items == [i \in 1..Len(v.arr) |-> TextOf(v.arr[i])]
  IN  entry.id \o ":" \o
        (IF ~IsArray(v) THEN TextOf(v)
         ELSE IF f.type = "checkbox" THEN Joined(items, d.array)
         ELSE IF f.type = "slider" THEN items[1] \o d.slider \o items[2]
         ELSE Joined(items, d.range))

\* C23: the output is, for the rendered entries in input order, key, colon,
\* encoded value and one space each: a scalar as it is, a checkbox array
\* joined with the array delimiter, a slider pair with the slider delimiter,
\* a timerange array with the range delimiter; the delimiters differ pairwise
C23_Codecs ==
  serialized # Undefined =>
    LET rendered == SelectSeq(filters[1].columnFilters, Rendered)
        d == filters[1].delimiters
    IN  /\ serialized[1] =
             Joined([i \in 1..Len(rendered) |-> TokenOf(rendered[i])], " ")
               \o (IF rendered = <<>> THEN "" ELSE " ")
        /\ d.array # d.range /\ d.array # d.slider /\ d.range # d.slider

\* C23: a slider pair and a checkbox array were serialized, in that order,
\* each with its own delimiter
C23_Witness ==
  /\ serialized # Undefined
  /\ filters[1].filterFields = Some(TestFields)
  /\ filters[1].delimiters = [array |-> ",", range |-> "-", slider |-> "~"]
  /\ serialized[1] = "latency:0~500 level:error,warn "

\* C24: an entry without matching field (or without field list) or with an
\* excluding field adds nothing and leaves the other tokens as they are: the
\* output is that of the list without such entries, and "" when none is left
C24_Exclusion ==
  serialized # Undefined =>
    LET rendered == SelectSeq(filters[1].columnFilters, Rendered)
    IN  /\ serialized[1] = serializeColumFilters(rendered, filters[1].filterFields,
                                                filters[1].delimiters)
        /\ rendered = <<>> => serialized[1] = ""
        /\ filters[1].filterFields = Undefined => serialized[1] = ""
        /\ \A i \in 1..Len(filters[1].columnFilters) :
             LET entry == filters[1].columnFilters[i]
             IN  (/\ Len(filters[1].columnFilters) = 1
                  /\ \/ MatchOf(entry) = {}
                     \/ \E f \in MatchOf(entry) :
                          "commandDisabled" \in DOMAIN f /\ f.commandDisabled)
                   => serialized[1] = ""

\* C24: an excluded host entry before a level entry left only the level token
C24_Witness ==
  /\ serialized # Undefined
  /\ filters[1].filterFields = Some(<<HostDisabled, TestFields[2]>>)
  /\ filters[1].columnFilters =
       <<[id |-> "host", value |-> Str("example.com")],
         [id |-> "level", value |-> Arr(<<Str("error")>>)]>>
  /\ serialized[1] = "level:error "

-----------------------------------------------------------------------------
(* generators/filter-fields.ts and generators/filter-schema.ts *)

\* a bug: every field is the bare base, flags copied as they are
filterFieldPlain(key, config) ==
  <<[label |-> config.label,
     value |-> key,
     defaultOpen |-> Some(config.filter[1].defaultOpen),
     commandDisabled |-> Some(config.filter[1].commandDisabled),
     type |-> config.filter[1].type]>>

\* the field pushed for one entry with a filter
filterField(key, config) ==
  LET filter == config.filter[1]
      base == [label |-> config.label,
               value |-> key,
               defaultOpen |-> IF filter.defaultOpen THEN Some(TRUE) ELSE Undefined,
               commandDisabled |-> IF filter.commandDisabled THEN Some(TRUE) ELSE Undefined]
      enumValues == Get(config, "enumValues")
      arrayItem == Get(config, "arrayItem")
      options ==
        IF TruthyObject(Get(filter, "options")) THEN filter.options
        ELSE IF config.kind = "enum" /\ TruthyObject(enumValues)
          THEN Some([i \in 1..Len(enumValues[1]) |->
                       [label |-> enumValues[1][i], value |-> Str(enumValues[1][i])]])
        ELSE IF config.kind = "boolean"
          THEN Some(<<[label |-> "Yes", value |-> Bool(TRUE)],
                      [label |-> "No", value |-> Bool(FALSE)]>>)
        ELSE IF /\ config.kind = "array"
                /\ arrayItem # Undefined
                /\ arrayItem[1].kind = "enum"
                /\ TruthyObject(Get(arrayItem[1], "enumValues"))
          THEN Some([i \in 1..Len(arrayItem[1].enumValues[1]) |->
                       [label |-> arrayItem[1].enumValues[1][i],
                        value |-> Str(arrayItem[1].enumValues[1][i])]])
        ELSE Get(filter, "options")
  IN  CASE filter.type = "input" -> <<Spread(base, [type |-> "input"])>>
        [] filter.type = "timerange" ->
             <<Spread(base, [type |-> "timerange", presets |-> Get(filter, "presets")])>>
        [] filter.type = "checkbox" ->
             <<Spread(base, [type |-> "checkbox", options |-> options,
                             component |-> Get(filter, "component")])>>
        [] filter.type = "slider" ->
             <<Spread(base,
                 [type |-> "slider",
                  min |-> IF Get(filter, "min") # Undefined THEN filter.min[1] ELSE 0,
                  max |-> IF Get(filter, "max") # Undefined THEN filter.max[1] ELSE 100])>>
        [] OTHER -> <<>>

RECURSIVE generateFilterFields(_)
generateFilterFields(schema) ==
  IF schema = <<>> THEN <<>>
  ELSE (IF Head(schema).value.filter = Null THEN <<>>
        ELSE filterField(Head(schema).key, Head(schema).value))
         \o generateFilterFields(Tail(schema))

\* the field.* builder assigned to definition[key], if any
schemaField(config) ==
  LET filter == config.filter[1]
      kind == config.kind
      enumValues == Get(config, "enumValues")
      arrayItem == Get(config, "arrayItem")
  IN  CASE filter.type = "input" ->
             IF kind = "string" THEN Some([field |-> "string"])
             ELSE IF kind = "number" THEN Some([field |-> "number"])
             ELSE Undefined
        [] filter.type = "checkbox" ->
             IF kind = "enum" /\ TruthyObject(enumValues)
               THEN Some([field |-> "array", of |-> "stringLiteral", values |-> enumValues[1]])
             ELSE IF kind = "number"
               THEN Some([field |-> "array", of |-> "number", delimiter |-> "ARRAY_DELIMITER"])
             ELSE IF kind = "boolean"
               THEN Some([field |-> "array", of |-> "boolean", delimiter |-> "ARRAY_DELIMITER"])
             ELSE IF /\ kind = "array"
                     /\ arrayItem # Undefined
                     /\ arrayItem[1].kind = "enum"
                     /\ TruthyObject(Get(arrayItem[1], "enumValues"))
               THEN Some([field |-> "array", of |-> "stringLiteral",
                          values |-> arrayItem[1].enumValues[1]])
             ELSE Undefined
        [] filter.type = "slider" ->
             Some([field |-> "array", of |-> "number", delimiter |-> "SLIDER_DELIMITER"])
        [] filter.type = "timerange" ->
             Some([field |-> "array", of |-> "timestamp", delimiter |-> "RANGE_DELIMITER"])
        [] OTHER -> Undefined

\* the definition handed to createSchema
RECURSIVE generateFilterSchema(_, _, _)
generateFilterSchema(schema, i, def) ==
  IF i > Len(schema) THEN def
  ELSE generateFilterSchema(schema, i + 1,
         IF schema[i].value.filter = Null \/ schemaField(schema[i].value) = Undefined
           THEN def
           ELSE ObjSet(def, schema[i].key, schemaField(schema[i].value)[1]))

\* type-legal chains: each filterable() names a kind the factory allows
GeneratorColumns ==
  {label(string, "Host"),
   notFilterable(string),
   number,
   filterable(number, Some("slider"), Undefined),
   filterable(number, Some("slider"), Some([min |-> Some(0), max |-> Some(MaxNum)])),
   filterable(number, Some("checkbox"), Undefined),
   boolean,
   defaultOpen(filterable(boolean, Some("checkbox"), Undefined)),
   timestamp,
   commandDisabled(filterable(timestamp, Some("timerange"), Some([presets |-> Some(<<"1h">>)]))),
   colEnum(LEVELS),
   filterable(colEnum(LEVELS), Some("checkbox"), Some([options |-> Some(SomeOptions)])),
   filterable(colEnum(LEVELS), Some("checkbox"), Some([options |-> Some(<<>>)])),
   array(colEnum(LEVELS)),
   array(string),
   record}

GeneratorKeys == {"b", "2", "10"}

\* the definition literals of n properties
RECURSIVE Literals(_)
Literals(n) ==
  IF n = 0 THEN {<<>>}
  ELSE {ObjSet(d, key, config) :
          d \in Literals(n - 1),
          key \in GeneratorKeys,
          config \in GeneratorColumns}

InitGenerators ==
  /\ builder = Undefined
  /\ F = {}
  /\ calls = 0
  /\ declared = <<>>
  /\ definition \in UNION {Literals(n) : n \in 1..MaxCols}
  /\ result = Undefined
  /\ json = Undefined
  /\ restored = Undefined
  /\ result2 = Undefined
  /\ json2 = Undefined
  /\ draft = Undefined
  /\ pc = "build"
  /\ heap = <<>>
  /\ builders = <<>>
  /\ attempt = Undefined
  /\ data = Undefined
  /\ inferred = Undefined
  /\ ExtUnset

GenerateFilterFields ==
  /\ pc = "build"
  /\ fields' = Some(generateFilterFields(definition))
  /\ pc' = "fields"
  /\ UNCHANGED <<builder, F, calls, declared, definition, result, json, restored,
                 result2, json2, draft>>
  /\ UNCHANGED <<checked, query, parsed, filters, serialized, filterSchema, emitted>>
  /\ UNCHANGED <<heap, builders, attempt, data, inferred>>

GenerateFilterSchema ==
  /\ pc = "fields"
  /\ filterSchema' = Some(generateFilterSchema(definition, 1, <<>>))
  /\ pc' = "generated"
  /\ UNCHANGED <<builder, F, calls, declared, definition, result, json, restored,
                 result2, json2, draft>>
  /\ UNCHANGED <<checked, query, parsed, filters, serialized, fields, emitted>>
  /\ UNCHANGED <<heap, builders, attempt, data, inferred>>

NextGenerators == GenerateFilterFields \/ GenerateFilterSchema

SpecGenerators == InitGenerators /\ [][NextGenerators]_vars

\* the entries of a definition that have a filter, in definition order
WithFilter(schema) == SelectSeq(schema, LAMBDA e : e.value.filter # Null)

OptionsFrom(values) == [i \in 1..Len(values) |-> [label |-> values[i], value |-> Str(values[i])]]

\* what a checkbox field without explicit options is given
DerivedOptions(config) ==
  IF config.kind = "enum" /\ Get(config, "enumValues") # Undefined
    THEN Some(OptionsFrom(config.enumValues[1]))
  ELSE IF config.kind = "boolean"
    THEN Some(<<[label |-> "Yes", value |-> Bool(TRUE)], [label |-> "No", value |-> Bool(FALSE)]>>)
  ELSE IF /\ config.kind = "array"
          /\ Get(config, "arrayItem") # Undefined
          /\ config.arrayItem[1].kind = "enum"
          /\ Get(config.arrayItem[1], "enumValues") # Undefined
    THEN Some(OptionsFrom(config.arrayItem[1].enumValues[1]))
  ELSE Undefined

C28_SameKeys ==
  filterSchema # Undefined =>
    {fields[1][i].value : i \in 1..Len(fields[1])}
      = {filterSchema[1][i].key : i \in 1..Len(filterSchema[1])}

-----------------------------------------------------------------------------
(* inferSchemaFromJSON -> deserializeSchema -> validateSchema, the path of   *)
(* createTableSchema.fromJSON on an inferred schema                          *)

\* records as JSON.parse returns them: any string is a key, the empty one included
CheckedRows ==
  {Obj(ObjectLiteral(w)) :
     w \in {<<<<"b", Num(Whole(5))>>>>,
            <<<<"b", Num(Whole(10))>>>>,
            <<<<"b", Num(Dec(150000, 0, 5))>>>>,
            <<<<"b", Str("a")>>>>,
            <<<<"user_id", Num(Whole(5))>>, <<"createdAt", Str("2024-01-15")>>>>,
            <<<<"user_id", Num(Whole(10))>>, <<"2", Bool(TRUE)>>>>,
            <<<<"_", Num(Whole(5))>>>>,
            <<<<"", Num(Whole(5))>>>>,
            <<<<"b", Num(Whole(5))>>, <<"", Str("a")>>>>,
            <<<<"10", Arr(Strings(1))>>>>}}

CheckedSamples == {Arr(rows) : rows \in UNION {[1..n -> CheckedRows] : n \in 0..MaxRows}}

InitInferChecked ==
  /\ builder = Undefined
  /\ F = {}
  /\ calls = 0
  /\ declared = <<>>
  /\ definition = <<>>
  /\ result = Undefined
  /\ json = Undefined
  /\ restored = Undefined
  /\ result2 = Undefined
  /\ json2 = Undefined
  /\ draft = Undefined
  /\ pc = "build"
  /\ heap = <<>>
  /\ builders = <<>>
  /\ attempt = Undefined
  /\ data \in {Some(d) : d \in CheckedSamples}
  /\ inferred = Undefined
  /\ ExtUnset

\* validateSchema(deserializeSchema(inferred))
ValidateInferred ==
  /\ inferred # Undefined
  /\ checked = Undefined
  /\ checked' = Some(validateSchema(deserializeSchema(inferred[1])))
  /\ UNCHANGED <<query, parsed, filters, serialized, fields, filterSchema, emitted>>
  /\ UNCHANGED <<data, inferred, heap, builders, attempt, pipeline>>

NextInferChecked == InferSchemaFromJSON \/ ValidateInferred

SpecInferChecked == InitInferChecked /\ [][NextInferChecked]_vars

\* C26: validateSchema(deserializeSchema(inferSchemaFromJSON(data))) does not
\* throw, whatever array of sample records data is.
C26_InferredValidates == checked # Undefined => ~checked[1].threw

-----------------------------------------------------------------------------
\* C27: deserializeSchema gives every descriptor whose dataType is one of the
\* seven kinds a column of that kind, array descriptors without an enum
\* arrayItemType and enum descriptors without enumValues included.
C27_DataTypePreserved ==
  (json # Undefined /\ restored # Undefined) =>
    \A i \in Columns(json[1].columns) :
      json[1].columns[i].dataType \in ColKind =>
        RestoredColumn(json[1].columns[i].key).kind = json[1].columns[i].dataType

-----------------------------------------------------------------------------
(* to-typescript.ts: the source text is kept as the calls it spells, each   *)
(* with the arguments written between its parentheses                       *)

CallOf(fn, args) == [fn |-> fn, args |-> args]

\* 1. the factory call
chainFactory(c) ==
  LET itemType == Get(c, "arrayItemType")
  IN  IF c.dataType = "enum" /\ TruthyObject(Get(c, "enumValues"))
        THEN CallOf("col.enum", <<c.enumValues[1]>>)
      ELSE IF /\ c.dataType = "array"
              /\ itemType # Undefined
              /\ itemType[1].dataType = "enum"
              /\ TruthyObject(Get(itemType[1], "enumValues"))
        THEN CallOf("col.array", <<CallOf("col.enum", <<itemType[1].enumValues[1]>>)>>)
      ELSE CallOf("col." \o c.dataType, <<>>)

\* 4. .display()
chainDisplay(c) ==
  IF c.display.type = "number" /\ TruthyString(Get(c.display, "unit"))
    THEN <<CallOf(".display", <<"number", Some([unit |-> c.display.unit])>>)>>
  ELSE IF c.display.type # "text"
    THEN <<CallOf(".display", <<c.display.type, Undefined>>)>>
  ELSE <<>>

\* 5. .filterable() / .notFilterable()
chainFilter(c) ==
  IF c.filter = Null THEN <<CallOf(".notFilterable", <<>>)>>
  ELSE LET f == c.filter[1]
       IN  <<IF f.type = "slider" /\ Get(f, "min") # Undefined /\ Get(f, "max") # Undefined
               THEN CallOf(".filterable", <<"slider", Some([min |-> f.min, max |-> f.max])>>)
             ELSE IF f.type = "checkbox"
               THEN IF TruthyObject(Get(f, "options")) /\ Len(f.options[1]) > 0
                      THEN CallOf(".filterable", <<"checkbox", Some([options |-> f.options])>>)
                      ELSE CallOf(".filterable", <<"checkbox", Undefined>>)
             ELSE IF f.type = "timerange"
               THEN CallOf(".filterable", <<"timerange", Undefined>>)
             ELSE CallOf(".filterable", <<"input", Undefined>>)>>
             \o (IF f.defaultOpen THEN <<CallOf(".defaultOpen", <<>>)>> ELSE <<>>)
             \o (IF f.commandDisabled THEN <<CallOf(".commandDisabled", <<>>)>> ELSE <<>>)

\* 7. .sheet()
chainSheet(c) ==
  IF c.sheet = Null THEN <<>>
  ELSE LET s == c.sheet[1]
           sheetArgs ==
             Spread(Spread(
               Prop(TruthyString(Get(s, "label")), "label", Get(s, "label")),
               Prop(TruthyString(Get(s, "className")), "className", Get(s, "className"))),
               Prop(TruthyString(Get(s, "skeletonClassName")), "skeletonClassName",
                    Get(s, "skeletonClassName")))
       IN  <<CallOf(".sheet", <<IF DOMAIN sheetArgs # {} THEN Some(sheetArgs) ELSE Undefined>>)>>

buildChain(c) ==
  <<chainFactory(c), CallOf(".label", <<c.label>>)>>
    \o (IF TruthyString(Get(c, "description"))
          THEN <<CallOf(".description", <<c.description[1]>>)>> ELSE <<>>)
    \o chainDisplay(c)
    \o chainFilter(c)
    \o (IF c.sortable THEN <<CallOf(".sortable", <<>>)>> ELSE <<>>)
    \o (IF c.hidden THEN <<CallOf(".hidden", <<>>)>> ELSE <<>>)
    \o (IF c.optional THEN <<CallOf(".optional", <<>>)>> ELSE <<>>)
    \o (IF Get(c, "size") # Undefined THEN <<CallOf(".size", <<c.size[1]>>)>> ELSE <<>>)
    \o chainSheet(c)

\* the properties of the createTableSchema({ ... }) literal
schemaToTypeScript(doc) ==
  [i \in 1..Len(doc.columns) |->
     [key |-> doc.columns[i].key, chain |-> buildChain(doc.columns[i])]]

(* col.ts: what the emitted calls do when the text is run *)

\* the col.* call that opens a chain
FactoryCall(call) ==
  CASE call.fn = "col.string" -> [threw |-> FALSE, value |-> string]
    [] call.fn = "col.number" -> [threw |-> FALSE, value |-> number]
    [] call.fn = "col.boolean" -> [threw |-> FALSE, value |-> boolean]
    [] call.fn = "col.timestamp" -> [threw |-> FALSE, value |-> timestamp]
    [] call.fn = "col.record" -> [threw |-> FALSE, value |-> record]
    [] call.fn = "col.enum" ->
         [threw |-> FALSE,
          value |-> IF call.args = <<>> THEN Spread(colEnum(<<>>), [enumValues |-> Undefined])
                    ELSE colEnum(call.args[1])]
    [] call.fn = "col.array" ->
         IF call.args = <<>>
           THEN Thrown("TypeError", <<"Cannot read properties of undefined (reading '_config')">>)
           ELSE [threw |-> FALSE, value |-> array(colEnum(call.args[1].args[1]))]
    [] OTHER -> Thrown("TypeError", <<call.fn, " is not a function">>)

\* one chained call on the builder of config b
Method(b, call) ==
  CASE call.fn = ".label" -> label(b, call.args[1])
    [] call.fn = ".description" -> description(b, call.args[1])
    [] call.fn = ".display" -> display(b, call.args[1], call.args[2])
    [] call.fn = ".filterable" -> filterable(b, Some(call.args[1]), call.args[2])
    [] call.fn = ".notFilterable" -> notFilterable(b)
    [] call.fn = ".defaultOpen" -> defaultOpen(b)
    [] call.fn = ".commandDisabled" -> commandDisabled(b)
    [] call.fn = ".sortable" -> sortable(b)
    [] call.fn = ".hidden" -> hidden(b)
    [] call.fn = ".optional" -> optional(b)
    [] call.fn = ".size" -> size(b, call.args[1])
    [] call.fn = ".sheet" -> sheet(b, call.args[1])

RECURSIVE Methods(_, _, _)
Methods(b, chain, i) ==
  IF i > Len(chain) THEN b ELSE Methods(Method(b, chain[i]), chain, i + 1)

\* the builder a chain evaluates to, or what it throws
Evaluate(chain) ==
  IF FactoryCall(chain[1]).threw THEN FactoryCall(chain[1])
  ELSE [threw |-> FALSE, value |-> Methods(FactoryCall(chain[1]).value, chain, 2)]

SchemaToTypeScript ==
  /\ pc = "build"
  /\ json # Undefined
  /\ emitted' = Some(schemaToTypeScript(json[1]))
  /\ pc' = "emitted"
  /\ UNCHANGED <<builder, F, calls, declared, definition, result, json, restored,
                 result2, json2, draft>>
  /\ UNCHANGED <<checked, query, parsed, filters, serialized, fields, filterSchema>>
  /\ UNCHANGED <<heap, builders, attempt, data, inferred>>

\* the emitted chains are run, one per property
RunEmitted ==
  /\ pc = "emitted"
  /\ checked' = Some([i \in 1..Len(emitted[1]) |->
                        [key |-> emitted[1][i].key, outcome |-> Evaluate(emitted[1][i].chain)]])
  /\ pc' = "evaluated"
  /\ UNCHANGED <<builder, F, calls, declared, definition, result, json, restored,
                 result2, json2, draft>>
  /\ UNCHANGED <<query, parsed, filters, serialized, fields, filterSchema, emitted>>
  /\ UNCHANGED <<heap, builders, attempt, data, inferred>>

NextTypeScript ==
  \/ WriteDescriptor \/ WriteDescription \/ WriteEnumValues \/ WriteArrayItemType
  \/ WriteFlag \/ WriteSize \/ WriteDisplay \/ WriteFilter \/ WriteFilterFlag \/ WriteSheet
  \/ PushColumn
  \/ SchemaToTypeScript \/ RunEmitted

SpecTypeScript == Init /\ [][NextTypeScript]_vars

BuiltInDisplay == {"text", "code", "boolean", "badge", "timestamp", "number"}

\* C29: for every descriptor with a built-in display type (display "text" on
\* enum, array, number, boolean and timestamp columns included) the emitted
\* chain evaluates to a column whose serialization is the one of the column
\* deserializeSchema reconstructs.
C29_ChainReconstructs ==
  checked # Undefined =>
    \A i \in 1..Len(json[1].columns) :
      json[1].columns[i].display.type \in BuiltInDisplay =>
        /\ ~checked[1][i].outcome.threw
        /\ serializeColumn(checked[1][i].key, checked[1][i].outcome.value)
             = serializeColumn(json[1].columns[i].key, deserializeColumn(json[1].columns[i]))

-----------------------------------------------------------------------------
(* col.ts: filterable(), defaultOpen() and commandDisabled() called on a    *)
(* builder whatever its type parameter, as deserializeSchema calls them     *)

\* the builders the calls are made on
Receivers ==
  {string, number, boolean, timestamp, colEnum(LEVELS), array(string), record,
   notFilterable(number),
   defaultOpen(boolean),
   commandDisabled(timestamp),
   filterable(number, Some("slider"), Some([min |-> Some(0), max |-> Some(MaxNum)]))}

FilterTypeArgs == {Undefined, Some("input"), Some("checkbox"), Some("slider"), Some("timerange")}

FilterOptionArgs ==
  {Undefined,
   Some(EmptyObject),
   Some([options |-> Some(SomeOptions)]),
   Some([component |-> Some(Fn)]),
   Some([min |-> Some(0), max |-> Some(MaxNum)]),
   Some([presets |-> Some(<<"1h">>)])}

InitFilterable ==
  /\ builder \in {Some(config) : config \in Receivers}
  /\ F = {}
  /\ calls = 0
  /\ declared = <<>>
  /\ definition = <<>>
  /\ result = Undefined
  /\ json = Undefined
  /\ restored = Undefined
  /\ result2 = Undefined
  /\ json2 = Undefined
  /\ draft = Undefined
  /\ pc = "build"
  /\ heap = <<>>
  /\ builders = <<>>
  /\ attempt = Undefined
  /\ data = Undefined
  /\ inferred = Undefined
  /\ ExtUnset

\* builder = builder.<call>: the call is kept with its receiver and its result
Chained(call, returned) ==
  /\ calls < MaxCalls
  /\ attempt' = Some([receiver |-> builder[1], call |-> call, returned |-> returned])
  /\ builder' = Some(returned)
  /\ calls' = calls + 1
  /\ UNCHANGED <<F, declared, definition, result, json, restored, result2, json2, draft, pc>>
  /\ UNCHANGED <<heap, builders, data, inferred, ext>>

CallFilterable ==
  \E type \in FilterTypeArgs, options \in FilterOptionArgs :
    Chained(<<"filterable", type, options>>, filterable(builder[1], type, options))

CallDefaultOpen == Chained(<<"defaultOpen">>, defaultOpen(builder[1]))

CallCommandDisabled == Chained(<<"commandDisabled">>, commandDisabled(builder[1]))

NextFilterable == CallFilterable \/ CallDefaultOpen \/ CallCommandDisabled

SpecFilterable == InitFilterable /\ [][NextFilterable]_vars

FilterParameters == {"options", "component", "min", "max", "presets"}

====
